---- MODULE Spec2Model ----
(***************************************************************************)
(* Blueprint viewer / editor (src/depo2/src/pages/Home.tsx): segments,     *)
(* polylines, drag, polyline drawing, import validation, and the wheel     *)
(* detail modal with its own polyline collection.                          *)
(*                                                                         *)
(* Numbers.  Percent coordinates are modelled as integers (a fixed-point   *)
(* reading of the JavaScript doubles, one unit = 1 %).  The three          *)
(* non-finite doubles are the values NaN, PosInf and NegInf below; every   *)
(* comparison goes through JsLt / JsGt, which are false on NaN as in       *)
(* JavaScript.  Non-ASCII text of the source is transliterated.            *)
(***************************************************************************)
EXTENDS Integers, Sequences, FiniteSets, TLC

(***************************************************************************)
(* Bounds of the model.                                                    *)
(***************************************************************************)
MaxLen == 2          \* longest array handed to the validator
MaxTime == 1         \* last value of the millisecond clock Date.now()
MaxSegOps == 2       \* sidebar edits, drag moves and wheel events in one run
MaxImportOps == 2    \* texts typed, segments added or deleted, resets in one run
MaxPolyOps == 2      \* lines started, points captured, lines edited, deletes asked for
MaxWheelRun == 34    \* wheel-up events in a row that are counted
ParentWidth == 200   \* CSS px width of the scroll container of the diagram

(***************************************************************************)
(* JavaScript numbers.                                                     *)
(***************************************************************************)
NaN == -1000001
PosInf == 1000000
NegInf == -1000000

IsNaN(v) == v = NaN
IsFinite(v) == v \notin {NaN, PosInf, NegInf}
JsLt(a, b) == ~IsNaN(a) /\ ~IsNaN(b) /\ a < b
JsGt(a, b) == ~IsNaN(a) /\ ~IsNaN(b) /\ a > b

\* a - b on doubles
JsSub(a, b) ==
  IF IsNaN(a) \/ IsNaN(b) THEN NaN
  ELSE IF a = PosInf THEN (IF b = PosInf THEN NaN ELSE PosInf)
  ELSE IF a = NegInf THEN (IF b = NegInf THEN NaN ELSE NegInf)
  ELSE IF b = PosInf THEN NegInf
  ELSE IF b = NegInf THEN PosInf
  ELSE a - b

\* (a / b) * 100 on doubles, rounded to the model's unit (finite a, b)
JsRatio100(a, b) ==
  IF IsNaN(a) \/ IsNaN(b) THEN NaN
  ELSE IF b = 0 THEN (IF a = 0 THEN NaN ELSE IF a > 0 THEN PosInf ELSE NegInf)
  ELSE IF a \in {PosInf, NegInf} THEN a
  ELSE (a * 100) \div b

\* A forgotten NaN test: NaN fails both comparisons and is returned.
clampPercentNoNaN(v) ==
  IF JsLt(v, 0) THEN 0 ELSE IF JsGt(v, 100) THEN 100 ELSE v

clampPercent(v) ==
  IF IsNaN(v) THEN 0
  ELSE IF JsLt(v, 0) THEN 0
  ELSE IF JsGt(v, 100) THEN 100
  ELSE v

(***************************************************************************)
(* Strings.  trim() on the strings the model uses.                         *)
(***************************************************************************)
Trim(s) == IF s \in {" ", "  "} THEN "" ELSE s

Colors == {"cyan", "emerald", "amber"}
DashStyles == {"solid", "dashed", "dotted"}

(***************************************************************************)
(* JSON values: what JSON.parse returns.                                   *)
(*   [t |-> "null"], [t |-> "num", n |-> n], [t |-> "str", s |-> s],       *)
(*   [t |-> "arr", a |-> <<...>>], [t |-> "obj", o |-> [field -> value]]   *)
(* A missing property reads as Undefined.                                  *)
(***************************************************************************)
JNull == [t |-> "null"]
Undefined == [t |-> "undefined"]
JNum(n) == [t |-> "num", n |-> n]
JStr(s) == [t |-> "str", s |-> s]
JArr(a) == [t |-> "arr", a |-> a]
JObj(o) == [t |-> "obj", o |-> o]

\* obj[k]; an array item has no such property
Prop(obj, k) == IF obj.t = "obj" /\ k \in DOMAIN obj.o THEN obj.o[k] ELSE Undefined

\* JSON.parse(JSON.stringify(n)): a non-finite number is written as null
JsonNumber(n) == IF IsFinite(n) THEN JNum(n) ELSE JNull

\* JSON.parse(JSON.stringify(segment))
SegmentToJson(s) ==
  JObj([id |-> JStr(s.id), code |-> JStr(s.code), title |-> JStr(s.title),
        details |-> JStr(s.details), top |-> JsonNumber(s.top),
        left |-> JsonNumber(s.left), width |-> JsonNumber(s.width),
        height |-> JsonNumber(s.height), color |-> JStr(s.color)])

SegmentsToJson(segs) == JArr([i \in 1..Len(segs) |-> SegmentToJson(segs[i])])

(***************************************************************************)
(* normalizeImportedSegments (BlueprintSidebarEdit).  The result is        *)
(* [ok |-> FALSE, v |-> <<>>] for null and [ok |-> TRUE, v |-> segments].  *)
(***************************************************************************)
\* A colour test that takes any string.
toSegmentColorAnyString(value) == IF value.t = "str" THEN value.s ELSE "cyan"

toSegmentColor(value) ==
  IF value.t = "str" /\ value.s \in Colors THEN value.s ELSE "cyan"

\* A truthiness test in place of the type test: 0 counts as missing.
safeNumberFalsy(value, fallback) ==
  IF value.t = "num" /\ IsFinite(value.n) /\ value.n # 0
  THEN clampPercent(value.n) ELSE fallback

safeNumber(value, fallback) ==
  IF value.t = "num" /\ IsFinite(value.n) THEN clampPercent(value.n) ELSE fallback

StringOr(value, fallback) == IF value.t = "str" THEN value.s ELSE fallback

\* the per-element test: typeof item === 'object' (true of arrays), item not
\* null, and a string id that is not blank
ItemAccepted(item) ==
  /\ item.t \in {"obj", "arr"}
  /\ Prop(item, "id").t = "str"
  /\ Trim(Prop(item, "id").s) # ""

NormalizeItem(item) ==
  [id |-> Prop(item, "id").s,
   code |-> StringOr(Prop(item, "code"), "SEG"),
   title |-> StringOr(Prop(item, "title"), ""),
   details |-> StringOr(Prop(item, "details"), ""),
   top |-> safeNumber(Prop(item, "top"), 0),
   left |-> safeNumber(Prop(item, "left"), 0),
   width |-> safeNumber(Prop(item, "width"), 10),
   height |-> safeNumber(Prop(item, "height"), 8),
   color |-> toSegmentColor(Prop(item, "color"))]

NullResult == [ok |-> FALSE, v |-> <<>>]

\* A validator that keeps the valid subset instead of rejecting.
normalizeKeepValid(raw) ==
  IF raw.t # "arr" THEN NullResult
  ELSE [ok |-> TRUE,
        v |-> [i \in 1..Len(SelectSeq(raw.a, ItemAccepted)) |->
                 NormalizeItem(SelectSeq(raw.a, ItemAccepted)[i])]]

normalizeImportedSegments(raw) ==
  IF raw.t # "arr" THEN NullResult
  ELSE IF \E i \in 1..Len(raw.a) : ~ItemAccepted(raw.a[i]) THEN NullResult
  ELSE [ok |-> TRUE, v |-> [i \in 1..Len(raw.a) |-> NormalizeItem(raw.a[i])]]

(***************************************************************************)
(* State.                                                                  *)
(***************************************************************************)
VARIABLES
  \* Home
  segments, selectedSegmentId, hoveredSegmentId, zoom, isEditMode,
  isTp2ModalOpen, isWheelModalOpen,
  polylines, isDrawingPolyline, activePolylineId, pendingDeletePolylineId,
  \* BlueprintImageWithSegments
  dragState, previewPoint,
  \* BlueprintSidebarEdit
  importText, importError, importSuccess,
  \* WheelDetailModal
  wPolylines, wActiveId, wIsDrawing, wPreviewPoint, wIsEditMode,
  \* environment: localStorage and the clock
  ls, now,
  \* bookkeeping of a run: the event handled last and the events counted
  last, used,
  \* validator runs
  vRaw,      \* the parsed JSON handed to the validator
  vSegs,     \* the segment array that is serialized
  vResult,   \* what normalizeImportedSegments returned
  vDone,     \* "init", "serialized", "validated", "roundtrip"
  \* backend: the tables and the requests that are being handled
  db, requests,
  \* ZigzagLine: the props of a render and what it produced
  zigzag

homeSegVars == <<segments, selectedSegmentId, hoveredSegmentId, zoom>>
homePolyVars == <<polylines, isDrawingPolyline, activePolylineId, pendingDeletePolylineId>>
imageVars == <<dragState, previewPoint>>
sidebarVars == <<importText, importError, importSuccess>>
modalFlags == <<isTp2ModalOpen, isWheelModalOpen>>
wheelVars == <<wPolylines, wActiveId, wIsDrawing, wPreviewPoint, wIsEditMode>>
validatorVars == <<vRaw, vSegs, vResult, vDone>>
backendVars == <<db, requests>>

vars == <<homeSegVars, homePolyVars, imageVars, sidebarVars, modalFlags, isEditMode,
          wheelVars, ls, now, last, used, validatorVars, backendVars, zigzag>>

(***************************************************************************)
(* Constants of the program.                                               *)
(***************************************************************************)
NoId == "<null>"                      \* the null of string | null
NoPoint == [set |-> FALSE, x |-> 0, y |-> 0]
Point(x, y) == [set |-> TRUE, x |-> x, y |-> y]
NoDrag == [id |-> NoId, offsetX |-> 0, offsetY |-> 0]
NoError == "<null>"                   \* importError === null

\* the text of the import textarea: blank, not JSON, or the text of a JSON value
BlankText == [kind |-> "blank"]
GarbageText == [kind |-> "garbage"]
JsonText(j) == [kind |-> "json", json |-> j]

\* DEFAULT_SEGMENTS, geometry rounded to the model's unit
DEFAULT_SEGMENTS ==
  << [id |-> "tp2", code |-> "TP-2", title |-> "Uchastok TP-2", details |-> "TP-2",
      top |-> 14, left |-> 87, width |-> 10, height |-> 7, color |-> "cyan"],
     [id |-> "otk", code |-> "OTK", title |-> "Priemnaya OTK", details |-> "OTK",
      top |-> 51, left |-> 24, width |-> 4, height |-> 8, color |-> "emerald"],
     [id |-> "seg-mljiz58p", code |-> "KC", title |-> "Kolesnyi ceh", details |-> "",
      top |-> 41, left |-> 76, width |-> 15, height |-> 8, color |-> "amber"] >>

\* DEFAULT_HOME_POLYLINES; strokeWidth in hundredths
DEFAULT_HOME_POLYLINES ==
  << [id |-> "wheel-poly-mljuz1y8", label |-> "Liniya 1", description |-> "",
      color |-> "cyan", strokeWidth |-> 30, dashStyle |-> "dashed",
      points |-> << [x |-> 15, y |-> 89], [x |-> 16, y |-> 84], [x |-> 16, y |-> 19] >>] >>

\* JSON.parse(JSON.stringify(polylines))
PolylineToJson(p) ==
  JObj([id |-> JStr(p.id), label |-> JStr(p.label), description |-> JStr(p.description),
        color |-> JStr(p.color), strokeWidth |-> JsonNumber(p.strokeWidth),
        dashStyle |-> JStr(p.dashStyle),
        points |-> JArr([i \in 1..Len(p.points) |->
                          JObj([x |-> JsonNumber(p.points[i].x),
                                y |-> JsonNumber(p.points[i].y)])])])

PolylinesToJson(ps) == JArr([i \in 1..Len(ps) |-> PolylineToJson(ps[i])])

\* array helpers: prev.map(...), prev.filter(...), arr[0]?.id ?? null
MapSeq(sq, F(_)) == [i \in 1..Len(sq) |-> F(sq[i])]
FirstId(sq) == IF Len(sq) > 0 THEN sq[1].id ELSE NoId
Ids(sq) == {sq[i].id : i \in 1..Len(sq)}

\* `${prefix}-${Date.now().toString(36)}`
TimeId(prefix, t) == prefix \o "-" \o ToString(t)

(***************************************************************************)
(* Rendered geometry.  The diagram container is zoom * 100 % of its        *)
(* parent wide; the svg overlay and the image fill it (viewBox 0 0 100     *)
(* 100, preserveAspectRatio none).  The image is taken to be square.       *)
(* zoom is kept in hundredths.  Pointer events carry their position        *)
(* relative to the top-left corner of the surface, in CSS px.              *)
(***************************************************************************)
RectWidth == (ParentWidth * zoom) \div 100
RectHeight == RectWidth

Pointers ==
  { [x |-> 192, y |-> 32], [x |-> 174, y |-> 32], [x |-> 80, y |-> 100],
    [x |-> 200, y |-> 40], [x |-> -40, y |-> 260] }

\* clientToSvgPercent: null when the svg is not attached or has no CTM
clientToSvgPercent(p, laidOut) ==
  IF ~laidOut THEN NoPoint
  ELSE Point(clampPercent(JsRatio100(p.x, RectWidth)),
             clampPercent(JsRatio100(p.y, RectHeight)))

\* the segment box (percent of the surface) contains the pointer
Hits(seg, p) ==
  /\ p.x * 100 >= seg.left * RectWidth
  /\ p.x * 100 <= (seg.left + seg.width) * RectWidth
  /\ p.y * 100 >= seg.top * RectHeight
  /\ p.y * 100 <= (seg.top + seg.height) * RectHeight

\* the segment div that receives a pointer event at p: the last one painted
HitIndex(p) ==
  IF \E i \in 1..Len(segments) : Hits(segments[i], p)
  THEN CHOOSE i \in 1..Len(segments) :
         /\ Hits(segments[i], p)
         /\ \A j \in (i+1)..Len(segments) : ~Hits(segments[j], p)
  ELSE 0

(***************************************************************************)
(* Home: initial state (first visit: nothing in localStorage), after the   *)
(* mount effects have written the three snapshots.                         *)
(***************************************************************************)
NoEvent == [op |-> "Init", id |-> NoId, field |-> "", value |-> 0, p |-> NoPoint]
Event(op, id, field, value, p) ==
  [op |-> op, id |-> id, field |-> field, value |-> value, p |-> p]

\* events counted against the bounds, and where the current drag was grabbed
\* (pointer, position of the segment, zoom) and how many moves it has seen
NoGrab == [p |-> NoPoint, left |-> 0, top |-> 0, zoom |-> 100, moves |-> 0]
\* ... and the drawing session of Home: the id Start created, the normalized
\* positions of its clicks, and whether only clicks and moves followed Start
\* ... and ups, the number of wheel-up events since the scale was set to 1.0
\* with nothing but wheel-up events in between (-1: something else came)
NoneUsed == [ops |-> 0, grab |-> NoGrab, session |-> NoId, clicks |-> <<>>,
             pure |-> FALSE, ups |-> 0]

HomeInit ==
  /\ segments = DEFAULT_SEGMENTS
  /\ selectedSegmentId = FirstId(DEFAULT_SEGMENTS)
  /\ hoveredSegmentId = NoId
  /\ zoom = 100
  /\ isEditMode = FALSE
  /\ isTp2ModalOpen = FALSE
  /\ isWheelModalOpen = FALSE
  /\ polylines = DEFAULT_HOME_POLYLINES
  /\ isDrawingPolyline = FALSE
  /\ activePolylineId = NoId
  /\ pendingDeletePolylineId = NoId
  /\ dragState = NoDrag
  /\ previewPoint = NoPoint
  /\ importText = BlankText
  /\ importError = NoError
  /\ importSuccess = FALSE
  /\ wPolylines = <<>>
  /\ wActiveId = NoId
  /\ wIsDrawing = FALSE
  /\ wPreviewPoint = NoPoint
  /\ wIsEditMode = FALSE
  /\ ls = [segments |-> SegmentsToJson(DEFAULT_SEGMENTS),
           polylines |-> PolylinesToJson(DEFAULT_HOME_POLYLINES),
           wheel |-> PolylinesToJson(<<>>), failing |-> FALSE]
  /\ now = 0
  /\ last = NoEvent
  /\ used = NoneUsed

ValidatorIdle ==
  /\ vRaw = JNull
  /\ vSegs = <<>>
  /\ vResult = NullResult
  /\ vDone = "init"

\* no server: no table, no request
BackendIdle == db = <<>> /\ requests = <<>>

\* no ZigzagLine is rendered
ZigzagIdle == zigzag = <<>>

\* A write that is put off to a later one.
PersistSegmentsLater == ls' = ls

\* useEffect(..., [segments]) and useEffect(..., [polylines]) of Home
\* A write whose exception is not caught: the effect does not complete.
PersistSegmentsUncaught ==
  ~ls.failing /\ ls' = [ls EXCEPT !.segments = SegmentsToJson(segments')]

\* try { localStorage.setItem(key, text) } catch {}: a setItem that throws
\* (storage unavailable, quota exceeded) leaves the store as it was
setItem(store, key, text) ==
  IF store.failing THEN store ELSE [store EXCEPT ![key] = text]

PersistSegments == ls' = setItem(ls, "segments", SegmentsToJson(segments'))
PersistPolylines == ls' = setItem(ls, "polylines", PolylinesToJson(polylines'))

\* from now on setItem throws
StorageFails ==
  /\ ~ls.failing
  /\ ls' = [ls EXCEPT !.failing = TRUE]
  /\ last' = Event("StorageFails", NoId, "", 0, NoPoint)
  /\ UNCHANGED <<homeSegVars, homePolyVars, imageVars, sidebarVars, modalFlags,
                 isEditMode, wheelVars, now, used, validatorVars, backendVars, zigzag>>

\* no modal or dialog overlay (fixed inset-0) covers the page
PageReachable ==
  /\ ~isTp2ModalOpen
  /\ ~isWheelModalOpen
  /\ pendingDeletePolylineId = NoId

\* Date.now() is read only to make ids ("seg-", "poly-", "wheel-poly-" followed by
\* the time), so the clock is advanced only past a value an id already carries
Tick ==
  /\ now < MaxTime
  /\ \/ TimeId("poly", now) \in Ids(polylines)
     \/ TimeId("wheel-poly", now) \in Ids(wPolylines)
     \/ TimeId("seg", now) \in Ids(segments)
  /\ now' = now + 1
  /\ UNCHANGED <<homeSegVars, homePolyVars, imageVars, sidebarVars, modalFlags,
                 isEditMode, wheelVars, ls, last, used, validatorVars, backendVars, zigzag>>

(***************************************************************************)
(* Home: segments.                                                         *)
(***************************************************************************)
\* prev.map((segment) => (segment.id === id ? { ...segment, ...patch } : segment))
PatchSegments(segs, id, field, value) ==
  [i \in 1..Len(segs) |->
     IF segs[i].id = id THEN [segs[i] EXCEPT ![field] = value] ELSE segs[i]]

\* An update whose patch also carries a new id.
PatchSegmentsAndId(segs, id, field, value) ==
  [i \in 1..Len(segs) |->
     IF segs[i].id = id THEN [segs[i] EXCEPT ![field] = value, !.id = id \o "-2"]
     ELSE segs[i]]

handleUpdateSegment(segs, id, field, value) == PatchSegments(segs, id, field, value)

\* the sidebar's `selected`: segments.find(...) || segments[0]; 0 when there is none
SelectedIndex ==
  IF \E i \in 1..Len(segments) : segments[i].id = selectedSegmentId
  THEN CHOOSE i \in 1..Len(segments) :
         /\ segments[i].id = selectedSegmentId
         /\ \A j \in 1..(i-1) : segments[j].id # selectedSegmentId
  ELSE IF Len(segments) > 0 THEN 1 ELSE 0

NumberInputs == {NaN, -5, 0, 50, 150, PosInf}
GeometryFields == {"top", "left", "width", "height"}
TextFields == {"code", "title", "details"}
TextInputs == {"", "X"}

\* onChange of the Top/Left/Width/Height inputs: Number(e.target.value) is n
SidebarGeometryEdit(field, n) ==
  /\ isEditMode /\ PageReachable
  /\ SelectedIndex # 0
  /\ used.ops < MaxSegOps
  /\ segments' = handleUpdateSegment(segments, segments[SelectedIndex].id, field,
                                      clampPercent(n))
  /\ last' = Event("SidebarGeometryEdit", segments[SelectedIndex].id, field, n, NoPoint)
  /\ used' = [used EXCEPT !.ops = @ + 1]
  /\ PersistSegments
  /\ UNCHANGED <<selectedSegmentId, hoveredSegmentId, zoom, homePolyVars, imageVars,
                 sidebarVars, modalFlags, isEditMode, wheelVars, now, validatorVars, backendVars, zigzag>>

\* onChange of the code / title / details inputs and of the colour select
SidebarTextEdit(field, txt) ==
  /\ isEditMode /\ PageReachable
  /\ SelectedIndex # 0
  /\ used.ops < MaxSegOps
  /\ segments' = handleUpdateSegment(segments, segments[SelectedIndex].id, field, txt)
  /\ last' = Event("SidebarTextEdit", segments[SelectedIndex].id, field, 0, NoPoint)
  /\ used' = [used EXCEPT !.ops = @ + 1]
  /\ PersistSegments
  /\ UNCHANGED <<selectedSegmentId, hoveredSegmentId, zoom, homePolyVars, imageVars,
                 sidebarVars, modalFlags, isEditMode, wheelVars, now, validatorVars, backendVars, zigzag>>

\* onSelectSegment from the sidebar list or a click on a segment in edit mode
SelectSegment(id) ==
  /\ isEditMode /\ PageReachable
  /\ id \in Ids(segments)
  /\ selectedSegmentId' = id
  /\ last' = Event("SelectSegment", id, "", 0, NoPoint)
  /\ UNCHANGED <<segments, hoveredSegmentId, zoom, homePolyVars, imageVars, sidebarVars,
                 modalFlags, isEditMode, wheelVars, ls, now, used, validatorVars, backendVars, zigzag>>

(***************************************************************************)
(* Home: mode toggle, modals.                                              *)
(***************************************************************************)
\* handleToggleEditMode.  The edit and the view branch of Home render
\* BlueprintImageWithSegments (and the sidebar) at different places of the
\* tree, so both are mounted afresh: their local state starts over.
ToggleEditModeKeepingSession ==
  /\ PageReachable
  /\ isEditMode' = ~isEditMode
  /\ selectedSegmentId' =
       IF ~isEditMode /\ selectedSegmentId = NoId /\ Len(segments) > 0
       THEN segments[1].id ELSE selectedSegmentId
  /\ hoveredSegmentId' = IF isEditMode THEN NoId ELSE hoveredSegmentId
  /\ dragState' = NoDrag
  /\ previewPoint' = NoPoint
  /\ importText' = BlankText
  /\ importError' = NoError
  /\ importSuccess' = FALSE
  /\ last' = Event("ToggleEditMode", NoId, "", 0, NoPoint)
  /\ UNCHANGED <<segments, zoom, homePolyVars, modalFlags, wheelVars, ls, now, used,
                 validatorVars, backendVars, zigzag>>

ToggleEditMode ==
  /\ PageReachable
  /\ isEditMode' = ~isEditMode
  /\ selectedSegmentId' =
       IF ~isEditMode /\ selectedSegmentId = NoId /\ Len(segments) > 0
       THEN segments[1].id ELSE selectedSegmentId
  /\ hoveredSegmentId' = IF isEditMode THEN NoId ELSE hoveredSegmentId
  /\ isDrawingPolyline' = IF isEditMode THEN FALSE ELSE isDrawingPolyline
  /\ dragState' = NoDrag
  /\ previewPoint' = NoPoint
  /\ importText' = BlankText
  /\ importError' = NoError
  /\ importSuccess' = FALSE
  /\ last' = Event("ToggleEditMode", NoId, "", 0, NoPoint)
  /\ UNCHANGED <<segments, zoom, polylines, activePolylineId, pendingDeletePolylineId,
                 modalFlags, wheelVars, ls, now, used, validatorVars, backendVars, zigzag>>

IsTp2(seg) == seg.id = "tp2" \/ seg.code = "TP-2"
IsWheelShop(seg) == seg.code = "KC" \/ seg.title = "Kolesnyi ceh"

\* the activeId effect never runs
SyncActiveNever(open, curr, lines) == curr

\* the activeId sync effect of WheelDetailModal, deps [open, polylines.length]
SyncActive(open, curr, lines) ==
  IF open /\ curr = NoId THEN FirstId(lines) ELSE curr

\* onClick of a segment in view mode: onSegmentClick
ViewClickSegment(i) ==
  /\ ~isEditMode /\ PageReachable
  /\ i \in 1..Len(segments)
  /\ isTp2ModalOpen' = IsTp2(segments[i])
  /\ isWheelModalOpen' = (~IsTp2(segments[i]) /\ IsWheelShop(segments[i]))
  /\ wActiveId' = SyncActive(isWheelModalOpen', wActiveId, wPolylines)
  /\ last' = Event("ViewClickSegment", segments[i].id, "", 0, NoPoint)
  /\ UNCHANGED <<homeSegVars, homePolyVars, imageVars, sidebarVars, isEditMode,
                 wPolylines, wIsDrawing, wPreviewPoint, wIsEditMode, ls, now, used,
                 validatorVars, backendVars, zigzag>>

CloseModal ==
  /\ isTp2ModalOpen \/ isWheelModalOpen
  /\ isTp2ModalOpen' = FALSE
  /\ isWheelModalOpen' = FALSE
  /\ last' = Event("CloseModal", NoId, "", 0, NoPoint)
  /\ UNCHANGED <<homeSegVars, homePolyVars, imageVars, sidebarVars, isEditMode,
                 wheelVars, ls, now, used, validatorVars, backendVars, zigzag>>

(***************************************************************************)
(* BlueprintImageWithSegments: zoom and drag.                              *)
(***************************************************************************)
zoomStep == 10
minZoom == 50
maxZoom == 400

Min(a, b) == IF a < b THEN a ELSE b
Max(a, b) == IF a > b THEN a ELSE b

\* A step that is not clamped.
NextZoomUnclamped(z, deltaY) == z + (IF deltaY > 0 THEN -1 ELSE 1) * zoomStep

\* handleWheel: Number(nextZoom.toFixed(2)), in hundredths
NextZoom(z, deltaY) ==
  Min(maxZoom, Max(minZoom, z + (IF deltaY > 0 THEN -1 ELSE 1) * zoomStep))

WheelDeltas == {-100, 0, 100}

\* the run of wheel-up events after one more wheel event
WheelRun(u, deltaY) ==
  [u EXCEPT !.ups = IF deltaY < 0 /\ @ >= 0 THEN Min(@ + 1, MaxWheelRun) ELSE -1]

\* handleWheel, one of a bounded number of events of a run
Wheel(deltaY) ==
  /\ PageReachable
  /\ used.ops < MaxSegOps
  /\ zoom' = NextZoom(zoom, deltaY)
  /\ last' = Event("Wheel", NoId, "", deltaY, NoPoint)
  /\ used' = [WheelRun(used, deltaY) EXCEPT !.ops = @ + 1]
  /\ UNCHANGED <<segments, selectedSegmentId, hoveredSegmentId, homePolyVars, imageVars,
                 sidebarVars, modalFlags, isEditMode, wheelVars, ls, now, validatorVars, backendVars, zigzag>>

\* handleWheel, any number of times
handleWheel(deltaY) ==
  /\ PageReachable
  /\ zoom' = NextZoom(zoom, deltaY)
  /\ last' = Event("Wheel", NoId, "", deltaY, NoPoint)
  /\ used' = WheelRun(used, deltaY)
  /\ UNCHANGED <<segments, selectedSegmentId, hoveredSegmentId, homePolyVars, imageVars,
                 sidebarVars, modalFlags, isEditMode, wheelVars, ls, now, validatorVars, backendVars, zigzag>>

\* handleMouseDown: { id, offsetX: point.x - segment.left, offsetY: point.y - segment.top }
GrabOffset(seg, point, p) ==
  [id |-> seg.id, offsetX |-> JsSub(point.x, seg.left),
   offsetY |-> JsSub(point.y, seg.top)]

\* A pointer-down that does not ask for edit mode.
GrabsInAnyMode(p, laidOut) == clientToSvgPercent(p, laidOut).set

\* A pointer-down that goes on when the conversion gave null.
GrabsOnNull(p, laidOut) == isEditMode

\* handleMouseDown gets past its early returns
Grabs(p, laidOut) == isEditMode /\ clientToSvgPercent(p, laidOut).set

\* onMouseDown of the segment div under the pointer.  While a polyline is
\* drawn the z-30 overlay covers the segments and takes the event instead.
MouseDown(p, laidOut) ==
  /\ PageReachable
  /\ ~(isEditMode /\ isDrawingPolyline)
  /\ HitIndex(p) # 0
  /\ dragState' =
       IF ~Grabs(p, laidOut) THEN dragState
       ELSE GrabOffset(segments[HitIndex(p)], clientToSvgPercent(p, laidOut), p)
  /\ last' = Event("MouseDown", segments[HitIndex(p)].id, "", 0, Point(p.x, p.y))
  /\ used' = IF ~Grabs(p, laidOut) THEN used
             ELSE [used EXCEPT !.grab = [p |-> Point(p.x, p.y),
                                         left |-> segments[HitIndex(p)].left,
                                         top |-> segments[HitIndex(p)].top,
                                         zoom |-> zoom, moves |-> 0]]
  /\ UNCHANGED <<homeSegVars, homePolyVars, previewPoint, sidebarVars, modalFlags,
                 isEditMode, wheelVars, ls, now, validatorVars, backendVars, zigzag>>

\* A move that shifts the segment from where it is now, not from the grab.
DragPositionFromCurrent(p, drag) ==
  LET seg == CHOOSE sg \in {segments[i] : i \in 1..Len(segments)} \cup {[left |-> 0, top |-> 0, id |-> drag.id]} :
               sg.id = drag.id
  IN [left |-> clampPercent(seg.left - used.grab.left
                            + JsRatio100(JsSub(p.x, drag.offsetX), RectWidth)),
      top |-> clampPercent(seg.top - used.grab.top
                           + JsRatio100(JsSub(p.y, drag.offsetY), RectHeight))]

\* the position handleMouseMove computes from the event and dragState
DragPosition(p, drag) ==
  [left |-> clampPercent(JsRatio100(JsSub(p.x, drag.offsetX), RectWidth)),
   top |-> clampPercent(JsRatio100(JsSub(p.y, drag.offsetY), RectHeight))]

\* handleSegmentPositionChange(id, { top, left })
MoveSegment(segs, id, pos) ==
  handleUpdateSegment(handleUpdateSegment(segs, id, "top", pos.top), id, "left", pos.left)

\* A move that patches the position and leaves the selection alone.
DragMoveKeepingSelection(p) ==
  /\ dragState # NoDrag
  /\ used.ops < MaxSegOps
  /\ segments' = MoveSegment(segments, dragState.id, DragPosition(p, dragState))
  /\ last' = Event("DragMove", dragState.id, "", 0, Point(p.x, p.y))
  /\ used' = [used EXCEPT !.ops = @ + 1, !.grab.moves = @ + 1]
  /\ PersistSegments
  /\ UNCHANGED <<selectedSegmentId, hoveredSegmentId, zoom, homePolyVars, imageVars,
                 sidebarVars, modalFlags, isEditMode, wheelVars, now, validatorVars, backendVars, zigzag>>

\* window 'mousemove' while dragState is set
DragMove(p) ==
  /\ dragState # NoDrag
  /\ used.ops < MaxSegOps
  /\ segments' = MoveSegment(segments, dragState.id, DragPosition(p, dragState))
  /\ selectedSegmentId' = dragState.id
  /\ last' = Event("DragMove", dragState.id, "", 0, Point(p.x, p.y))
  /\ used' = [used EXCEPT !.ops = @ + 1, !.grab.moves = @ + 1]
  /\ PersistSegments
  /\ UNCHANGED <<hoveredSegmentId, zoom, homePolyVars, imageVars, sidebarVars,
                 modalFlags, isEditMode, wheelVars, now, validatorVars, backendVars, zigzag>>

\* window 'mouseup' / 'mouseleave' while dragState is set
StopDragging ==
  /\ dragState # NoDrag
  /\ dragState' = NoDrag
  /\ last' = Event("StopDragging", dragState.id, "", 0, NoPoint)
  /\ UNCHANGED <<homeSegVars, homePolyVars, previewPoint, sidebarVars, modalFlags,
                 isEditMode, wheelVars, ls, now, used, validatorVars, backendVars, zigzag>>

\* window 'blur' while dragState is set: the effect registers no listener for
\* it, nothing of the program runs
WindowBlur ==
  /\ dragState # NoDrag
  /\ last' = Event("WindowBlur", dragState.id, "", 0, NoPoint)
  /\ UNCHANGED <<homeSegVars, homePolyVars, imageVars, sidebarVars, modalFlags,
                 isEditMode, wheelVars, ls, now, used, validatorVars, backendVars, zigzag>>

(***************************************************************************)
(* Home: add, delete, import, reset.                                       *)
(***************************************************************************)
NewSegment(id, n) ==
  [id |-> id, code |-> "SEG-" \o ToString(n), title |-> "", details |-> "",
   top |-> 10, left |-> 10, width |-> 10, height |-> 8, color |-> "amber"]

FilterOut(sq, id) == SelectSeq(sq, LAMBDA e : e.id # id)

handleAddSegment ==
  /\ isEditMode /\ PageReachable
  /\ used.ops < MaxImportOps
  /\ segments' = Append(segments, NewSegment(TimeId("seg", now), Len(segments) + 1))
  /\ selectedSegmentId' = TimeId("seg", now)
  /\ last' = Event("AddSegment", TimeId("seg", now), "", 0, NoPoint)
  /\ used' = [used EXCEPT !.ops = @ + 1]
  /\ PersistSegments
  /\ UNCHANGED <<hoveredSegmentId, zoom, homePolyVars, imageVars, sidebarVars,
                 modalFlags, isEditMode, wheelVars, now, validatorVars, backendVars, zigzag>>

\* the sidebar's delete button: onDeleteSegment(selected.id)
handleDeleteSegment ==
  /\ isEditMode /\ PageReachable
  /\ used.ops < MaxImportOps
  /\ SelectedIndex # 0
  /\ LET id == segments[SelectedIndex].id IN
       /\ segments' = FilterOut(segments, id)
       /\ selectedSegmentId' =
            IF selectedSegmentId # id THEN selectedSegmentId
            ELSE FirstId(FilterOut(segments, id))
       /\ hoveredSegmentId' = IF hoveredSegmentId = id THEN NoId ELSE hoveredSegmentId
       /\ last' = Event("DeleteSegment", id, "", 0, NoPoint)
  /\ used' = [used EXCEPT !.ops = @ + 1]
  /\ PersistSegments
  /\ UNCHANGED <<zoom, homePolyVars, imageVars, sidebarVars, modalFlags, isEditMode,
                 wheelVars, now, validatorVars, backendVars, zigzag>>

\* A reset that leaves the scale as it is.
handleResetToDefaultKeepingZoom ==
  /\ isEditMode /\ PageReachable
  /\ used.ops < MaxImportOps
  /\ segments' = DEFAULT_SEGMENTS
  /\ selectedSegmentId' = FirstId(DEFAULT_SEGMENTS)
  /\ hoveredSegmentId' = NoId
  /\ last' = Event("ResetToDefault", NoId, "", 0, NoPoint)
  /\ used' = [used EXCEPT !.ops = @ + 1, !.ups = 0]
  /\ PersistSegments
  /\ UNCHANGED <<zoom, homePolyVars, imageVars, sidebarVars, modalFlags, isEditMode,
                 wheelVars, now, validatorVars, backendVars, zigzag>>

handleResetToDefault ==
  /\ isEditMode /\ PageReachable
  /\ used.ops < MaxImportOps
  /\ segments' = DEFAULT_SEGMENTS
  /\ selectedSegmentId' = FirstId(DEFAULT_SEGMENTS)
  /\ hoveredSegmentId' = NoId
  /\ zoom' = 100
  /\ last' = Event("ResetToDefault", NoId, "", 0, NoPoint)
  /\ used' = [used EXCEPT !.ops = @ + 1, !.ups = 0]
  /\ PersistSegments
  /\ UNCHANGED <<homePolyVars, imageVars, sidebarVars, modalFlags, isEditMode,
                 wheelVars, now, validatorVars, backendVars, zigzag>>

ImportObject(id, top, color) ==
  JObj([id |-> id, code |-> JStr("IMP"), top |-> top, left |-> JNum(20),
        color |-> color])

ImportTexts ==
  { BlankText, GarbageText,
    JsonText(JNull),
    JsonText(JObj([id |-> JStr("a")])),
    JsonText(JArr(<<>>)),
    JsonText(JArr(<<ImportObject(JStr("a"), JNum(150), JStr("red"))>>)),
    JsonText(JArr(<<ImportObject(JStr("tp2"), JNum(30), JStr("amber")),
                    ImportObject(JStr("b"), JNull, JStr("emerald"))>>)),
    JsonText(JArr(<<ImportObject(JStr("a"), JNum(30), JStr("amber")),
                    ImportObject(JStr(" "), JNum(30), JStr("amber"))>>)),
    JsonText(JArr(<<ImportObject(JStr("a"), JNum(30), JStr("amber")), JNum(1)>>)),
    JsonText(JArr(<<ImportObject(JStr("a"), JNum(30), JStr("amber")),
                    ImportObject(JStr("a"), JNum(60), JStr("cyan"))>>)) }

\* onChange of the import textarea
TypeImportText(t) ==
  /\ isEditMode /\ PageReachable
  /\ used.ops < MaxImportOps
  /\ importText' = t
  /\ importError' = NoError
  /\ importSuccess' = FALSE
  /\ last' = Event("TypeImportText", NoId, "", 0, NoPoint)
  /\ used' = [used EXCEPT !.ops = @ + 1]
  /\ UNCHANGED <<homeSegVars, homePolyVars, imageVars, modalFlags, isEditMode,
                 wheelVars, ls, now, validatorVars, backendVars, zigzag>>

ImportOutcome(t) ==
  IF t.kind = "blank" THEN [ok |-> FALSE, v |-> <<>>, error |-> "paste-json-first"]
  ELSE IF t.kind = "garbage" THEN [ok |-> FALSE, v |-> <<>>, error |-> "cannot-parse"]
  ELSE IF ~normalizeImportedSegments(t.json).ok
          \/ Len(normalizeImportedSegments(t.json).v) = 0
       THEN [ok |-> FALSE, v |-> <<>>, error |-> "bad-format-or-empty"]
  ELSE [ok |-> TRUE, v |-> normalizeImportedSegments(t.json).v, error |-> NoError]

\* handleImportSegments(next): the collection after a successful import
\* An import that merges: the imported segments are appended.
ImportedCollectionMerge(prev, next) == prev \o next

ImportedCollection(prev, next) == next

\* handleApplyImport, with handleImportSegments on success
handleApplyImport ==
  /\ isEditMode /\ PageReachable
  /\ LET out == ImportOutcome(importText) IN
       /\ importError' = out.error
       /\ importSuccess' = out.ok
       /\ segments' = IF out.ok THEN ImportedCollection(segments, out.v) ELSE segments
       /\ selectedSegmentId' = IF out.ok THEN FirstId(out.v) ELSE selectedSegmentId
       /\ hoveredSegmentId' = IF out.ok THEN NoId ELSE hoveredSegmentId
       /\ ls' = IF out.ok THEN setItem(ls, "segments", SegmentsToJson(segments')) ELSE ls
  /\ last' = Event("ApplyImport", NoId, "", 0, NoPoint)
  /\ UNCHANGED <<zoom, homePolyVars, imageVars, importText, modalFlags, isEditMode,
                 wheelVars, now, used, validatorVars, backendVars, zigzag>>

(***************************************************************************)
(* Home: polylines.                                                        *)
(***************************************************************************)
\* A new line that already carries a point.
NewPolylineWithPoint(id, n) ==
  [id |-> id, label |-> "Liniya " \o ToString(n), description |-> "", color |-> "cyan",
   strokeWidth |-> 70, dashStyle |-> "solid", points |-> <<[x |-> 0, y |-> 0]>>]

NewPolyline(id, n) ==
  [id |-> id, label |-> "Liniya " \o ToString(n), description |-> "", color |-> "cyan",
   strokeWidth |-> 70, dashStyle |-> "solid", points |-> <<>>]

DrawPointers == { [x |-> 80, y |-> 100], [x |-> -40, y |-> 260] }

\* the session is no longer a plain start / click / move sequence
Interrupted == [used EXCEPT !.pure = FALSE]

\* the sidebar's currentActivePolylineId: activePolylineId ?? polylines[0]?.id ?? null
currentActivePolylineId ==
  IF activePolylineId # NoId THEN activePolylineId ELSE FirstId(polylines)

\* the Start button of the sidebar (disabled while drawing)
handleStartPolyline ==
  /\ isEditMode /\ PageReachable
  /\ ~isDrawingPolyline
  /\ used.ops < MaxPolyOps
  /\ polylines' = Append(polylines, NewPolyline(TimeId("poly", now), Len(polylines) + 1))
  /\ activePolylineId' = TimeId("poly", now)
  /\ isDrawingPolyline' = TRUE
  /\ last' = Event("StartPolyline", TimeId("poly", now), "", 0, NoPoint)
  /\ used' = [used EXCEPT !.ops = @ + 1, !.session = TimeId("poly", now),
                          !.clicks = <<>>, !.pure = TRUE]
  /\ PersistPolylines
  /\ UNCHANGED <<homeSegVars, pendingDeletePolylineId, imageVars, sidebarVars,
                 modalFlags, isEditMode, wheelVars, now, validatorVars, backendVars, zigzag>>

\* a press on the Start button of the sidebar while it is disabled: no click
\* event is delivered, nothing of the program runs
PressStartDisabled ==
  /\ isEditMode /\ PageReachable
  /\ isDrawingPolyline
  /\ last' = Event("PressStartDisabled", NoId, "", 0, NoPoint)
  /\ UNCHANGED <<homeSegVars, homePolyVars, imageVars, sidebarVars, modalFlags,
                 isEditMode, wheelVars, ls, now, used, validatorVars, backendVars, zigzag>>

\* the drawing overlay takes pointer events only in edit mode while drawing
OverlayActive == isEditMode /\ isDrawingPolyline /\ PageReachable

\* handleMouseMoveOnCanvas
CanvasMove(p, laidOut) ==
  /\ OverlayActive
  /\ previewPoint' = clientToSvgPercent(p, laidOut)
  /\ last' = Event("CanvasMove", NoId, "", 0, NoPoint)
  /\ UNCHANGED <<homeSegVars, homePolyVars, dragState, sidebarVars, modalFlags,
                 isEditMode, wheelVars, ls, now, used, validatorVars, backendVars, zigzag>>

\* onMouseLeave of the overlay
CanvasLeave ==
  /\ OverlayActive
  /\ previewPoint' = NoPoint
  /\ last' = Event("CanvasLeave", NoId, "", 0, NoPoint)
  /\ UNCHANGED <<homeSegVars, homePolyVars, dragState, sidebarVars, modalFlags,
                 isEditMode, wheelVars, ls, now, used, validatorVars, backendVars, zigzag>>

\* the point handleCanvasClick hands on: previewPoint if set, else the click
CapturedPoint(preview, clicked) == IF preview.set THEN preview ELSE clicked

\* prev.map(...) that appends to the line Start created last
AppendToLast(lines, activeId, pt) ==
  [i \in 1..Len(lines) |->
     IF i = Len(lines)
     THEN [lines[i] EXCEPT !.points = Append(@, [x |-> pt.x, y |-> pt.y])]
     ELSE lines[i]]

\* A capture that puts the new point first.
PrependToActive(lines, activeId, pt) ==
  [i \in 1..Len(lines) |->
     IF lines[i].id = activeId
     THEN [lines[i] EXCEPT !.points = <<[x |-> pt.x, y |-> pt.y]>> \o @]
     ELSE lines[i]]

\* prev.map((poly) => (poly.id === activeId ? { ...poly, points: [...poly.points, p] } : poly))
AppendToActive(lines, activeId, pt) ==
  [i \in 1..Len(lines) |->
     IF lines[i].id = activeId
     THEN [lines[i] EXCEPT !.points = Append(@, [x |-> pt.x, y |-> pt.y])]
     ELSE lines[i]]

\* handleCanvasClick, with handleAddPolylinePointFromCanvas
CanvasClick(p, laidOut) ==
  /\ OverlayActive
  /\ used.ops < MaxPolyOps
  /\ LET pt == CapturedPoint(previewPoint, clientToSvgPercent(p, laidOut)) IN
       polylines' = IF pt.set /\ activePolylineId # NoId
                    THEN AppendToActive(polylines, activePolylineId, pt)
                    ELSE polylines
  /\ last' = Event("CanvasClick", activePolylineId, "", 0, Point(p.x, p.y))
  /\ used' = [used EXCEPT !.ops = @ + 1,
                          !.clicks = Append(@, clientToSvgPercent(p, laidOut))]
  /\ PersistPolylines
  /\ UNCHANGED <<homeSegVars, isDrawingPolyline, activePolylineId,
                 pendingDeletePolylineId, imageVars, sidebarVars, modalFlags, isEditMode,
                 wheelVars, now, validatorVars, backendVars, zigzag>>

\* the Finish button of the sidebar (disabled unless drawing)
handleFinishPolylineDiscarding ==
  /\ isEditMode /\ PageReachable
  /\ isDrawingPolyline
  /\ isDrawingPolyline' = FALSE
  /\ polylines' = SelectSeq(polylines, LAMBDA l : Len(l.points) >= 2)
  /\ last' = Event("FinishPolyline", activePolylineId, "", 0, NoPoint)
  /\ PersistPolylines
  /\ UNCHANGED <<homeSegVars, activePolylineId, pendingDeletePolylineId,
                 imageVars, sidebarVars, modalFlags, isEditMode, wheelVars, now, used,
                 validatorVars, backendVars, zigzag>>

handleFinishPolyline ==
  /\ isEditMode /\ PageReachable
  /\ isDrawingPolyline
  /\ isDrawingPolyline' = FALSE
  /\ last' = Event("FinishPolyline", activePolylineId, "", 0, NoPoint)
  /\ UNCHANGED <<homeSegVars, polylines, activePolylineId, pendingDeletePolylineId,
                 imageVars, sidebarVars, modalFlags, isEditMode, wheelVars, ls, now, used,
                 validatorVars, backendVars, zigzag>>

handleClearPolylinesKeepingActive ==
  /\ isEditMode /\ PageReachable
  /\ isDrawingPolyline' = FALSE
  /\ polylines' = <<>>
  /\ last' = Event("ClearPolylines", NoId, "", 0, NoPoint)
  /\ used' = Interrupted
  /\ PersistPolylines
  /\ UNCHANGED <<homeSegVars, activePolylineId, pendingDeletePolylineId, imageVars,
                 sidebarVars, modalFlags, isEditMode, wheelVars, now, validatorVars, backendVars, zigzag>>

handleClearPolylines ==
  /\ isEditMode /\ PageReachable
  /\ isDrawingPolyline' = FALSE
  /\ activePolylineId' = NoId
  /\ polylines' = <<>>
  /\ last' = Event("ClearPolylines", NoId, "", 0, NoPoint)
  /\ used' = Interrupted
  /\ PersistPolylines
  /\ UNCHANGED <<homeSegVars, pendingDeletePolylineId, imageVars, sidebarVars,
                 modalFlags, isEditMode, wheelVars, now, validatorVars, backendVars, zigzag>>

\* onChange of the sidebar's line select: onSelectPolyline(e.target.value)
SelectPolyline(id) ==
  /\ isEditMode /\ PageReachable
  /\ id \in Ids(polylines)
  /\ id # currentActivePolylineId
  /\ activePolylineId' = id
  /\ last' = Event("SelectPolyline", id, "", 0, NoPoint)
  /\ used' = Interrupted
  /\ UNCHANGED <<homeSegVars, polylines, isDrawingPolyline, pendingDeletePolylineId,
                 imageVars, sidebarVars, modalFlags, isEditMode, wheelVars, ls, now,
                 validatorVars, backendVars, zigzag>>

\* prev.map((poly) => (poly.id === id ? { ...poly, ...patch } : poly))
\* An update that forgets the id test.
handleUpdatePolylineEvery(lines, id, field, value) ==
  [i \in 1..Len(lines) |-> [lines[i] EXCEPT ![field] = value]]

handleUpdatePolyline(lines, id, field, value) ==
  [i \in 1..Len(lines) |->
     IF lines[i].id = id THEN [lines[i] EXCEPT ![field] = value] ELSE lines[i]]

PolylineTextPatches == { <<"label", "L">>, <<"color", "amber">>, <<"dashStyle", "dotted">> }

\* onChange of the label / colour / dash-style controls of the sidebar
SidebarPolylineEdit(field, value) ==
  /\ isEditMode /\ PageReachable
  /\ Len(polylines) > 0
  /\ used.ops < MaxPolyOps
  /\ polylines' = handleUpdatePolyline(polylines, currentActivePolylineId, field, value)
  /\ last' = Event("SidebarPolylineEdit", currentActivePolylineId, field, 0, NoPoint)
  /\ used' = [Interrupted EXCEPT !.ops = @ + 1]
  /\ PersistPolylines
  /\ UNCHANGED <<homeSegVars, isDrawingPolyline, activePolylineId,
                 pendingDeletePolylineId, imageVars, sidebarVars, modalFlags, isEditMode,
                 wheelVars, now, validatorVars, backendVars, zigzag>>

\* the sidebar's delete button opens the confirm dialog
RequestDeletePolyline ==
  /\ isEditMode /\ PageReachable
  /\ Len(polylines) > 0
  /\ used.ops < MaxPolyOps
  /\ pendingDeletePolylineId' = currentActivePolylineId
  /\ last' = Event("RequestDeletePolyline", currentActivePolylineId, "", 0, NoPoint)
  /\ used' = [Interrupted EXCEPT !.ops = @ + 1]
  /\ UNCHANGED <<homeSegVars, polylines, isDrawingPolyline, activePolylineId, imageVars,
                 sidebarVars, modalFlags, isEditMode, wheelVars, ls, now, validatorVars, backendVars, zigzag>>

CancelDeletePolyline ==
  /\ pendingDeletePolylineId # NoId
  /\ pendingDeletePolylineId' = NoId
  /\ last' = Event("CancelDeletePolyline", pendingDeletePolylineId, "", 0, NoPoint)
  /\ UNCHANGED <<homeSegVars, polylines, isDrawingPolyline, activePolylineId, imageVars,
                 sidebarVars, modalFlags, isEditMode, wheelVars, ls, now, used,
                 validatorVars, backendVars, zigzag>>

\* what the line a delete removes was to the session (kept in the event record)
DeletedRole(active, drawing, id) ==
  IF active # id THEN "other" ELSE IF drawing THEN "drawn" ELSE "active"

\* a delete that leaves the active reference alone
ActiveAfterDeleteKeep(curr, id, lines) == curr

\* setActivePolylineId((curr) => (curr !== id ? curr : polylines.filter(...)[0]?.id ?? null))
ActiveAfterDelete(curr, id, lines) ==
  IF curr # id THEN curr ELSE FirstId(FilterOut(lines, id))

\* onConfirm of the dialog: handleDeletePolyline(pendingDeletePolylineId)
ConfirmDeletePolyline ==
  /\ pendingDeletePolylineId # NoId
  /\ polylines' = FilterOut(polylines, pendingDeletePolylineId)
  /\ activePolylineId' =
       ActiveAfterDelete(activePolylineId, pendingDeletePolylineId, polylines)
  /\ isDrawingPolyline' =
       IF activePolylineId = pendingDeletePolylineId THEN FALSE ELSE isDrawingPolyline
  /\ pendingDeletePolylineId' = NoId
  /\ last' = Event("DeletePolyline", pendingDeletePolylineId,
                   DeletedRole(activePolylineId, isDrawingPolyline, pendingDeletePolylineId),
                   0, NoPoint)
  /\ PersistPolylines
  /\ UNCHANGED <<homeSegVars, imageVars, sidebarVars, modalFlags, isEditMode, wheelVars,
                 now, used, validatorVars, backendVars, zigzag>>

(***************************************************************************)
(* WheelDetailModal: its own polylines, stored under their own key.  The   *)
(* modal stays mounted while closed; its controls exist while it is open.  *)
(* Its drawing surface is ParentWidth px wide and high.                    *)
(***************************************************************************)
\* useEffect(..., [polylines]) of the modal
PersistWheel == ls' = setItem(ls, "wheel", PolylinesToJson(wPolylines'))

\* clientToPercent of the modal
clientToPercent(p, laidOut) ==
  IF ~laidOut THEN NoPoint
  ELSE Point(clampPercent(JsRatio100(p.x, ParentWidth)),
             clampPercent(JsRatio100(p.y, ParentWidth)))

\* the edit / view switch of the modal
WheelToggleEditMode ==
  /\ isWheelModalOpen
  /\ wIsEditMode' = ~wIsEditMode
  /\ wIsDrawing' = IF wIsEditMode THEN FALSE ELSE wIsDrawing
  /\ wPreviewPoint' = IF wIsEditMode THEN NoPoint ELSE wPreviewPoint
  /\ last' = Event("WheelToggleEditMode", NoId, "", 0, NoPoint)
  /\ UNCHANGED <<homeSegVars, homePolyVars, imageVars, sidebarVars, modalFlags,
                 isEditMode, wPolylines, wActiveId, ls, now, used, validatorVars, backendVars, zigzag>>

\* startLine (button disabled unless editing and not drawing)
startLine ==
  /\ isWheelModalOpen
  /\ wIsEditMode /\ ~wIsDrawing
  /\ used.ops < MaxPolyOps
  /\ wPolylines' =
       Append(wPolylines, NewPolyline(TimeId("wheel-poly", now), Len(wPolylines) + 1))
  /\ wActiveId' = SyncActive(isWheelModalOpen, TimeId("wheel-poly", now), wPolylines')
  /\ wIsDrawing' = TRUE
  /\ last' = Event("startLine", TimeId("wheel-poly", now), "", 0, NoPoint)
  /\ used' = [used EXCEPT !.ops = @ + 1]
  /\ PersistWheel
  /\ UNCHANGED <<homeSegVars, homePolyVars, imageVars, sidebarVars, modalFlags,
                 isEditMode, wPreviewPoint, wIsEditMode, now, validatorVars, backendVars, zigzag>>

\* a press on the Start button of the modal while it is disabled
PressStartLineDisabled ==
  /\ isWheelModalOpen
  /\ ~wIsEditMode \/ wIsDrawing
  /\ last' = Event("PressStartLineDisabled", NoId, "", 0, NoPoint)
  /\ UNCHANGED <<homeSegVars, homePolyVars, imageVars, sidebarVars, modalFlags,
                 isEditMode, wheelVars, ls, now, used, validatorVars, backendVars, zigzag>>

\* handleContainerClick: the coordinates of the click are the new point
handleContainerClick(p, laidOut) ==
  /\ isWheelModalOpen
  /\ (wIsEditMode /\ wIsDrawing) => used.ops < MaxPolyOps
  /\ LET pt == clientToPercent(p, laidOut) IN
       wPolylines' = IF wIsEditMode /\ wIsDrawing /\ pt.set /\ wActiveId # NoId
                     THEN AppendToActive(wPolylines, wActiveId, pt)
                     ELSE wPolylines
  /\ last' = Event("handleContainerClick", wActiveId, "", 0, Point(p.x, p.y))
  /\ used' = IF wIsEditMode /\ wIsDrawing THEN [used EXCEPT !.ops = @ + 1] ELSE used
  /\ PersistWheel
  /\ UNCHANGED <<homeSegVars, homePolyVars, imageVars, sidebarVars, modalFlags,
                 isEditMode, wActiveId, wIsDrawing, wPreviewPoint, wIsEditMode, now,
                 validatorVars, backendVars, zigzag>>

\* handleMouseMove of the modal
WheelMouseMove(p, laidOut) ==
  /\ isWheelModalOpen
  /\ wPreviewPoint' = IF wIsEditMode /\ wIsDrawing THEN clientToPercent(p, laidOut)
                      ELSE NoPoint
  /\ last' = Event("WheelMouseMove", NoId, "", 0, NoPoint)
  /\ UNCHANGED <<homeSegVars, homePolyVars, imageVars, sidebarVars, modalFlags,
                 isEditMode, wPolylines, wActiveId, wIsDrawing, wIsEditMode, ls, now,
                 used, validatorVars, backendVars, zigzag>>

\* the pointer leaves the drawing surface of the modal, on which a preview is
\* shown: the container has no onMouseLeave, nothing of the program runs
WheelMouseLeave ==
  /\ isWheelModalOpen
  /\ wPreviewPoint.set
  /\ last' = Event("WheelMouseLeave", NoId, "", 0, NoPoint)
  /\ UNCHANGED <<homeSegVars, homePolyVars, imageVars, sidebarVars, modalFlags,
                 isEditMode, wheelVars, ls, now, used, validatorVars, backendVars, zigzag>>

\* finishLine (button disabled unless editing and drawing)
finishLine ==
  /\ isWheelModalOpen
  /\ wIsEditMode /\ wIsDrawing
  /\ wIsDrawing' = FALSE
  /\ wPreviewPoint' = NoPoint
  /\ last' = Event("finishLine", wActiveId, "", 0, NoPoint)
  /\ UNCHANGED <<homeSegVars, homePolyVars, imageVars, sidebarVars, modalFlags,
                 isEditMode, wPolylines, wActiveId, wIsEditMode, ls, now, used,
                 validatorVars, backendVars, zigzag>>

\* the line select of the modal, setActiveId(e.target.value || null), and the
\* select button of a row, setActiveId(p.id)
WheelSelect(id) ==
  /\ isWheelModalOpen
  /\ id \in Ids(wPolylines) \cup {NoId}
  /\ id # wActiveId
  /\ wActiveId' = id
  /\ last' = Event("WheelSelect", id, "", 0, NoPoint)
  /\ UNCHANGED <<homeSegVars, homePolyVars, imageVars, sidebarVars, modalFlags,
                 isEditMode, wPolylines, wIsDrawing, wPreviewPoint, wIsEditMode, ls, now,
                 used, validatorVars, backendVars, zigzag>>

\* updateActive
updateActive(field, value) ==
  /\ isWheelModalOpen
  /\ wActiveId # NoId
  /\ used.ops < MaxPolyOps
  /\ wPolylines' = handleUpdatePolyline(wPolylines, wActiveId, field, value)
  /\ last' = Event("updateActive", wActiveId, field, 0, NoPoint)
  /\ used' = [used EXCEPT !.ops = @ + 1]
  /\ PersistWheel
  /\ UNCHANGED <<homeSegVars, homePolyVars, imageVars, sidebarVars, modalFlags,
                 isEditMode, wActiveId, wIsDrawing, wPreviewPoint, wIsEditMode, now,
                 validatorVars, backendVars, zigzag>>

\* deleteLine, from the delete button of the active line or of a row; the
\* activeId effect runs when the length of the collection has changed
deleteLine(id) ==
  /\ isWheelModalOpen
  /\ id \in Ids(wPolylines)
  /\ wPolylines' = FilterOut(wPolylines, id)
  /\ wActiveId' = SyncActive(isWheelModalOpen, IF wActiveId = id THEN NoId ELSE wActiveId,
                             wPolylines')
  /\ wIsDrawing' = IF wActiveId = id THEN FALSE ELSE wIsDrawing
  /\ last' = Event("deleteLine", id, DeletedRole(wActiveId, wIsDrawing, id), 0, NoPoint)
  /\ PersistWheel
  /\ UNCHANGED <<homeSegVars, homePolyVars, imageVars, sidebarVars, modalFlags,
                 isEditMode, wPreviewPoint, wIsEditMode, now, used, validatorVars, backendVars, zigzag>>

\* clearAll
clearAll ==
  /\ isWheelModalOpen
  /\ wPolylines' = <<>>
  /\ wActiveId' = NoId
  /\ wIsDrawing' = FALSE
  /\ last' = Event("clearAll", NoId, "", 0, NoPoint)
  /\ PersistWheel
  /\ UNCHANGED <<homeSegVars, homePolyVars, imageVars, sidebarVars, modalFlags,
                 isEditMode, wPreviewPoint, wIsEditMode, now, used, validatorVars, backendVars, zigzag>>

(***************************************************************************)
(* Export.  navigator.clipboard is missing, or writeText resolves, or it   *)
(* rejects.  The event records the outcome of the clipboard (id) and what  *)
(* the handler did then (field): "copied", "downloaded" (downloadJsonFile  *)
(* was called) or "message" (the sidebar shows its clipboard message).     *)
(***************************************************************************)
ClipboardOutcomes == {"resolves", "missing", "rejects"}

\* copyJsonToClipboard: true only when writeText resolved
copyJsonToClipboard(outcome) == outcome = "resolves"

ClipboardMessage == "clipboard-unavailable"

\* handleCopyJson (polylines) and handleCopyAllSegments of the edit sidebar
SidebarCopy(op, outcome) ==
  /\ isEditMode /\ PageReachable
  /\ op \in {"handleCopyJson", "handleCopyAllSegments"}
  /\ importError' = IF copyJsonToClipboard(outcome) THEN NoError ELSE ClipboardMessage
  /\ importSuccess' = copyJsonToClipboard(outcome)
  /\ last' = Event(op, outcome,
                   IF copyJsonToClipboard(outcome) THEN "copied" ELSE "message",
                   0, NoPoint)
  /\ UNCHANGED <<homeSegVars, homePolyVars, imageVars, importText, modalFlags,
                 isEditMode, wheelVars, ls, now, used, validatorVars, backendVars, zigzag>>

\* handleCopyHomePolylines: the button under the diagram, in both modes
handleCopyHomePolylines(outcome) ==
  /\ PageReachable
  /\ last' = Event("handleCopyHomePolylines", outcome,
                   IF copyJsonToClipboard(outcome) THEN "copied" ELSE "downloaded",
                   0, NoPoint)
  /\ UNCHANGED <<homeSegVars, homePolyVars, imageVars, sidebarVars, modalFlags,
                 isEditMode, wheelVars, ls, now, used, validatorVars, backendVars, zigzag>>

\* handleDownloadHomePolylines: downloadJsonFile swallows what it throws
DownloadOutcomes == {"saved", "throws"}

handleDownloadHomePolylines(outcome) ==
  /\ PageReachable
  /\ last' = Event("handleDownloadHomePolylines", outcome,
                   IF outcome = "saved" THEN "downloaded" ELSE "ignored", 0, NoPoint)
  /\ UNCHANGED <<homeSegVars, homePolyVars, imageVars, sidebarVars, modalFlags,
                 isEditMode, wheelVars, ls, now, used, validatorVars, backendVars, zigzag>>

\* handleCopyWheelPolylines of the modal
handleCopyWheelPolylines(outcome) ==
  /\ isWheelModalOpen
  /\ last' = Event("handleCopyWheelPolylines", outcome,
                   IF copyJsonToClipboard(outcome) THEN "copied" ELSE "downloaded",
                   0, NoPoint)
  /\ UNCHANGED <<homeSegVars, homePolyVars, imageVars, sidebarVars, modalFlags,
                 isEditMode, wheelVars, ls, now, used, validatorVars, backendVars, zigzag>>

(***************************************************************************)
(* The initializers of the three collections.  What localStorage holds     *)
(* under a key is a text: none or the empty string (getItem gives null or  *)
(* ""), a text JSON.parse throws on, or the text of a JSON value.          *)
(* A property that is missing from a stored element is undefined in the    *)
(* store: UndefinedText in a string field, NaN in a numeric field.  The    *)
(* stored texts of the model have numbers or nothing in numeric fields and *)
(* strings or nothing in string fields.                                    *)
(***************************************************************************)
UndefinedText == "<undefined>"

AsIsText(value) == IF value.t = "str" THEN value.s ELSE UndefinedText
AsIsNumber(value) == IF value.t = "num" THEN value.n ELSE NaN

\* JSON.parse(stored) as Segment[]: the elements enter the store as they are
CastSegment(item) ==
  [id |-> AsIsText(Prop(item, "id")), code |-> AsIsText(Prop(item, "code")),
   title |-> AsIsText(Prop(item, "title")), details |-> AsIsText(Prop(item, "details")),
   top |-> AsIsNumber(Prop(item, "top")), left |-> AsIsNumber(Prop(item, "left")),
   width |-> AsIsNumber(Prop(item, "width")), height |-> AsIsNumber(Prop(item, "height")),
   color |-> AsIsText(Prop(item, "color"))]

\* the initializer of Home's segments
InitialSegments(text) ==
  IF text.kind = "json" /\ text.json.t = "arr"
  THEN MapSeq(text.json.a, CastSegment)
  ELSE DEFAULT_SEGMENTS

\* String(raw.id)
StringOfId(value) ==
  IF value.t = "str" THEN value.s
  ELSE IF value.t = "num" THEN ToString(value.n)
  ELSE IF value.t = "null" THEN "null"
  ELSE "undefined"

\* (raw.points as PolylinePoint[]) when it is an array, [] otherwise
CastPoints(value) ==
  IF value.t = "arr"
  THEN [i \in 1..Len(value.a) |-> [x |-> AsIsNumber(Prop(value.a[i], "x")),
                                    y |-> AsIsNumber(Prop(value.a[i], "y"))]]
  ELSE <<>>

\* the element-wise map of the two polyline initializers
LoadPolyline(raw) ==
  [id |-> StringOfId(Prop(raw, "id")),
   label |-> StringOr(Prop(raw, "label"), "Liniya"),
   description |-> StringOr(Prop(raw, "description"), ""),
   color |-> IF Prop(raw, "color").t \in {"undefined", "null"} THEN "cyan"
             ELSE AsIsText(Prop(raw, "color")),
   strokeWidth |-> IF Prop(raw, "strokeWidth").t = "num" /\ IsFinite(Prop(raw, "strokeWidth").n)
                   THEN Prop(raw, "strokeWidth").n ELSE 70,
   dashStyle |-> IF Prop(raw, "dashStyle").t = "str"
                    /\ Prop(raw, "dashStyle").s \in {"dashed", "dotted"}
                 THEN Prop(raw, "dashStyle").s ELSE "solid",
   points |-> CastPoints(Prop(raw, "points"))]

\* the initializer of a polyline collection: reading a property of a null
\* element throws, and the catch gives the fallback
InitialPolylines(text, fallback) ==
  IF text.kind = "json" /\ text.json.t = "arr"
     /\ \A i \in 1..Len(text.json.a) : text.json.a[i].t # "null"
  THEN MapSeq(text.json.a, LoadPolyline)
  ELSE fallback

\* what the storage keys hold when the page is opened
StoredSegmentTexts ==
  { BlankText, GarbageText,
    JsonText(JObj([id |-> JStr("a")])),
    JsonText(JArr(<<>>)),
    JsonText(SegmentsToJson(DEFAULT_SEGMENTS)),
    JsonText(JArr(<<JObj([code |-> JStr("KC"), top |-> JNum(10), left |-> JNum(10),
                          width |-> JNum(10), height |-> JNum(8),
                          color |-> JStr("amber")])>>)),
    JsonText(JArr(<<JObj([id |-> JStr("s1"), code |-> JStr("KC"), title |-> JStr(""),
                          details |-> JStr(""), top |-> JNum(500), left |-> JNum(-20),
                          width |-> JNum(10), height |-> JNum(8),
                          color |-> JStr("red")])>>)) }

StoredPolylineTexts ==
  { BlankText, GarbageText,
    JsonText(JStr("lines")),
    JsonText(JArr(<<>>)),
    JsonText(PolylinesToJson(DEFAULT_HOME_POLYLINES)),
    JsonText(JArr(<<JNull>>)),
    JsonText(JArr(<<JObj([label |-> JStr("L"), color |-> JStr("red"),
                          strokeWidth |-> JNum(-5), dashStyle |-> JStr("wavy"),
                          points |-> JArr(<<JObj([x |-> JNum(500), y |-> JNum(-3)])>>)])>>)) }

StoredWheelTexts ==
  { BlankText,
    JsonText(JArr(<<JNull>>)),
    JsonText(JArr(<<JObj([id |-> JStr("w1"), color |-> JStr("red"),
                          strokeWidth |-> JNum(0)])>>)) }

\* the state after the first render and its effects, with text under the keys
Loaded(text) ==
  /\ segments = InitialSegments(text.segments)
  /\ selectedSegmentId = IF FirstId(segments) = UndefinedText THEN NoId
                         ELSE FirstId(segments)
  /\ hoveredSegmentId = NoId
  /\ zoom = 100
  /\ isEditMode = FALSE
  /\ isTp2ModalOpen = FALSE
  /\ isWheelModalOpen = FALSE
  /\ polylines = InitialPolylines(text.polylines, DEFAULT_HOME_POLYLINES)
  /\ isDrawingPolyline = FALSE
  /\ activePolylineId = NoId
  /\ pendingDeletePolylineId = NoId
  /\ dragState = NoDrag
  /\ previewPoint = NoPoint
  /\ importText = BlankText
  /\ importError = NoError
  /\ importSuccess = FALSE
  /\ wPolylines = InitialPolylines(text.wheel, <<>>)
  /\ wActiveId = FirstId(wPolylines)
  /\ wIsDrawing = FALSE
  /\ wPreviewPoint = NoPoint
  /\ wIsEditMode = FALSE
  /\ ls = [segments |-> SegmentsToJson(segments),
           polylines |-> PolylinesToJson(polylines),
           wheel |-> PolylinesToJson(wPolylines), failing |-> FALSE]
  /\ now = 0
  /\ last = NoEvent
  /\ used = NoneUsed

\* vRaw keeps the texts the initializers read
InitLoad ==
  /\ \E ts \in StoredSegmentTexts, tp \in StoredPolylineTexts, tw \in StoredWheelTexts :
       /\ vRaw = [segments |-> ts, polylines |-> tp, wheel |-> tw]
       /\ Loaded(vRaw)
  /\ vSegs = <<>>
  /\ vResult = NullResult
  /\ vDone = "init"
  /\ BackendIdle /\ ZigzagIdle

NextLoad ==
  \/ ToggleEditMode
  \/ \E n \in {NaN, 150} : SidebarGeometryEdit("top", n)
  \/ \E patch \in PolylineTextPatches : SidebarPolylineEdit(patch[1], patch[2])
  \/ \E i \in 1..Len(segments) : ViewClickSegment(i)
  \/ CloseModal
  \/ WheelToggleEditMode
  \/ \E patch \in PolylineTextPatches : updateActive(patch[1], patch[2])

SpecLoad == InitLoad /\ [][NextLoad]_vars

(***************************************************************************)
(* Backend: the project-scoped routes of segments, polylines and           *)
(* wheel-polylines, and POST /register.  A handler runs up to its next     *)
(* await pool.query(...); the query and the code after it, up to the next  *)
(* query, are one step, and the steps of the requests interleave.  The     *)
(* projects table is fixed: p1 of u1, p2 of u2, and no project p0.         *)
(***************************************************************************)
\* the requests a run handles
MaxRequests == 3

Tables == {"segments", "polylines", "wheel_polylines"}
Methods == {"GET", "POST", "PUT", "DELETE"}
ProjectIds == {"p1", "p2", "p0"}
EntityIds == {"e1"}
Tokens == {"u1", "u2", NoId}          \* the userId of the token; NoId: none

NoRow == [project |-> NoId, v |-> 0]
Row(projectId, v) == [project |-> projectId, v |-> v]

\* SELECT user_id FROM projects WHERE id = $1
ProjectOwner(projectId) ==
  IF projectId = "p1" THEN "u1" ELSE IF projectId = "p2" THEN "u2" ELSE NoId

\* authMiddleware: 401 without a token that verifies, else the next handler
authMiddleware(token) == IF token = NoId THEN 401 ELSE 0

\* verifyProjectOwnership: 403 when there is no such project or it is of
\* another user, else the next handler
verifyProjectOwnership(userId, projectId) ==
  IF ProjectOwner(projectId) = NoId \/ ProjectOwner(projectId) # userId THEN 403 ELSE 0

\* the response that ends a request: method, entity, who asked for which
\* project, status
Response(req, status) ==
  Event(req.method, req.id, <<req.user, req.projectId>>, status, NoPoint)

RemoveAt(sq, i) == [j \in 1..(Len(sq) - 1) |-> IF j < i THEN sq[j] ELSE sq[j + 1]]

RouteInit ==
  /\ HomeInit /\ ValidatorIdle /\ ZigzagIdle
  /\ \E t \in Tables :
       db = [table |-> t, rows |-> [e \in EntityIds |-> Row("p1", 0)], users |-> <<>>]
  /\ requests = <<>>

homeVars ==
  <<homeSegVars, homePolyVars, imageVars, sidebarVars, modalFlags, isEditMode, wheelVars,
    ls, now, validatorVars, zigzag>>

\* a request arrives: authMiddleware, then the query of verifyProjectOwnership
Arrive(token, projectId, method, id) ==
  /\ used.ops < MaxRequests
  /\ used' = [used EXCEPT !.ops = @ + 1]
  /\ LET req == [user |-> token, projectId |-> projectId, method |-> method,
                 id |-> id, pc |-> "owned"]
         status == IF authMiddleware(token) # 0 THEN authMiddleware(token)
                   ELSE verifyProjectOwnership(token, projectId)
     IN /\ requests' = IF status = 0 THEN Append(requests, req) ELSE requests
        /\ last' = IF status = 0 THEN Event("Arrive", id, <<token, projectId>>, 0, NoPoint)
                   ELSE Response(req, status)
  /\ UNCHANGED <<db, homeVars>>

\* GET /: SELECT ... WHERE project_id = $1
GetAll(i) ==
  /\ requests[i].method = "GET" /\ requests[i].pc = "owned"
  /\ last' = Response(requests[i], 200)
  /\ requests' = RemoveAt(requests, i)
  /\ UNCHANGED <<db, used, homeVars>>

\* POST /: INSERT with the id of the body; a second row with the id of a row
\* breaks the primary key and the catch answers 500
Create(i) ==
  /\ requests[i].method = "POST" /\ requests[i].pc = "owned"
  /\ LET req == requests[i] IN
       IF db.rows[req.id] # NoRow
       THEN db' = db /\ last' = Response(req, 500)
       ELSE /\ db' = [db EXCEPT !.rows[req.id] = Row(req.projectId, 0)]
            /\ last' = Response(req, 201)
  /\ requests' = RemoveAt(requests, i)
  /\ UNCHANGED <<used, homeVars>>

\* PUT and DELETE /:id, first query:
\* SELECT id FROM <table> WHERE id = $1 AND project_id = $2
CheckEntity(i) ==
  /\ requests[i].method \in {"PUT", "DELETE"} /\ requests[i].pc = "owned"
  /\ LET req == requests[i] IN
       IF db.rows[req.id].project # req.projectId
       THEN requests' = RemoveAt(requests, i) /\ last' = Response(req, 404)
       ELSE /\ requests' = [requests EXCEPT ![i].pc = "checked"]
            /\ last' = Event("CheckEntity", req.id, <<req.user, req.projectId>>, 0, NoPoint)
  /\ UNCHANGED <<db, used, homeVars>>

\* the rows the second query of PUT and DELETE writes: WHERE id = $n
WriteMatches(row, req) == row # NoRow

\* PUT /:id, second query: UPDATE ... WHERE id = $9 RETURNING ...; without a
\* row the segments route answers 200 with no segment, the polyline routes
\* read .points of undefined and answer 500
Update(i) ==
  /\ requests[i].method = "PUT" /\ requests[i].pc = "checked"
  /\ LET req == requests[i] IN
       IF WriteMatches(db.rows[req.id], req)
       THEN /\ db' = [db EXCEPT !.rows[req.id].v = 1]
            /\ last' = Response(req, 200)
       ELSE /\ db' = db
            /\ last' = Response(req, IF db.table = "segments" THEN 200 ELSE 500)
  /\ requests' = RemoveAt(requests, i)
  /\ UNCHANGED <<used, homeVars>>

\* DELETE /:id, second query: DELETE FROM <table> WHERE id = $1
Delete(i) ==
  /\ requests[i].method = "DELETE" /\ requests[i].pc = "checked"
  /\ LET req == requests[i] IN
       /\ db' = IF WriteMatches(db.rows[req.id], req)
                THEN [db EXCEPT !.rows[req.id] = NoRow] ELSE db
       /\ last' = Response(req, 200)
  /\ requests' = RemoveAt(requests, i)
  /\ UNCHANGED <<used, homeVars>>

NextRoute ==
  \/ \E token \in Tokens, projectId \in ProjectIds, method \in Methods, id \in EntityIds :
       Arrive(token, projectId, method, id)
  \/ \E i \in 1..Len(requests) : GetAll(i)
  \/ \E i \in 1..Len(requests) : Create(i)
  \/ \E i \in 1..Len(requests) : CheckEntity(i)
  \/ \E i \in 1..Len(requests) : Update(i)
  \/ \E i \in 1..Len(requests) : Delete(i)

SpecRoute == RouteInit /\ [][NextRoute]_vars

(***************************************************************************)
(* POST /register.  db.users is the users table, one email per row, in     *)
(* the order of the inserts.                                               *)
(***************************************************************************)
Emails == {"a@x", "b@x"}
Bodies == Emails \cup {""}            \* "": the email or the password is missing

UserExists == "User already exists"
Required == "Email and password are required"
Failed == "Registration failed"
Registered == "User registered successfully"

HasEmail(users, email) == \E k \in 1..Len(users) : users[k] = email

\* An insert into a table without the constraint.
NoConstraint(users, email) == FALSE

\* email VARCHAR(255) UNIQUE NOT NULL: the insert of a second row with the
\* email of a row fails
UniqueViolation(users, email) == HasEmail(users, email)

\* the response of the register handler: email, message, status
Registration(email, message, status) == Event("register", email, message, status, NoPoint)

RegisterInit ==
  /\ HomeInit /\ ValidatorIdle /\ ZigzagIdle
  /\ db = [table |-> "users", rows |-> <<>>, users |-> <<>>]
  /\ requests = <<>>

\* a register request arrives: the test of the body, then the handler waits
\* for SELECT id FROM users WHERE email = $1
Register(email) ==
  /\ used.ops < MaxRequests
  /\ used' = [used EXCEPT !.ops = @ + 1]
  /\ requests' = IF email = "" THEN requests
                 ELSE Append(requests, [email |-> email, pc |-> "select"])
  /\ last' = IF email = "" THEN Registration(email, Required, 400)
             ELSE Registration(email, "", 0)
  /\ UNCHANGED <<db, homeVars>>

\* the SELECT has run: 400 when it found a row, else the handler goes on to
\* hash the password and waits for the INSERT
LookupUser(i) ==
  /\ requests[i].pc = "select"
  /\ IF HasEmail(db.users, requests[i].email)
     THEN /\ requests' = RemoveAt(requests, i)
          /\ last' = Registration(requests[i].email, UserExists, 400)
     ELSE /\ requests' = [requests EXCEPT ![i].pc = "insert"]
          /\ last' = Registration(requests[i].email, "", 0)
  /\ UNCHANGED <<db, used, homeVars>>

\* the INSERT has run: 201 with the new row, or the catch answers 500 when
\* the insert failed
InsertUser(i) ==
  /\ requests[i].pc = "insert"
  /\ IF UniqueViolation(db.users, requests[i].email)
     THEN /\ db' = db
          /\ last' = Registration(requests[i].email, Failed, 500)
     ELSE /\ db' = [db EXCEPT !.users = Append(@, requests[i].email)]
          /\ last' = Registration(requests[i].email, Registered, 201)
  /\ requests' = RemoveAt(requests, i)
  /\ UNCHANGED <<used, homeVars>>

NextRegister ==
  \/ \E email \in Bodies : Register(email)
  \/ \E i \in 1..Len(requests) : LookupUser(i)
  \/ \E i \in 1..Len(requests) : InsertUser(i)

SpecRegister == RegisterInit /\ [][NextRegister]_vars

(***************************************************************************)
(* ZigzagLine.  Lengths are in tenths of a pixel, so that a height and a   *)
(* step can have a fraction; NaN and the infinities are those of the page. *)
(***************************************************************************)
\* the iterations of the vertex loop that are followed
MaxVertices == 64

\* Math.round of a length in tenths, in whole pixels: halves go up
MathRound(t) ==
  IF IsNaN(t) THEN NaN ELSE IF ~IsFinite(t) THEN t ELSE (t + 5) \div 10

\* Math.max: NaN when an argument is NaN
MathMax(a, b) == IF IsNaN(a) \/ IsNaN(b) THEN NaN ELSE Max(a, b)

\* a <= b and a + b of numbers
JsLe(a, b) == ~IsNaN(a) /\ ~IsNaN(b) /\ a <= b
JsAdd(a, b) ==
  IF IsNaN(a) \/ IsNaN(b) THEN NaN
  ELSE IF a = PosInf \/ b = PosInf THEN PosInf
  ELSE a + b

\* const safeHeight = Math.max(40, Math.round(height)), in tenths
safeHeight(height) ==
  IF IsFinite(MathMax(40, MathRound(height)))
  THEN 10 * MathMax(40, MathRound(height))
  ELSE MathMax(40, MathRound(height))

\* Math.round(y / step) for y >= 0 and step > 0
RoundedRatio(y, step) ==
  IF step = PosInf THEN 0 ELSE (2 * y + step) \div (2 * step)

\* idx % 2 === 0 ? amplitude : 0
ZigzagX(idx, amplitude) == IF idx % 2 = 0 THEN amplitude ELSE 0

\* for (let y = 0; y <= safeHeight; y += step) points.push({ x, y })
RECURSIVE ZigzagLoop(_, _, _, _, _, _)
ZigzagLoop(y, points, safe, step, amplitude, fuel) ==
  IF ~JsLe(y, safe) THEN [outcome |-> "returns", points |-> points]
  ELSE IF fuel = 0 THEN [outcome |-> "running", points |-> points]
  ELSE ZigzagLoop(JsAdd(y, step),
                  Append(points, [x |-> ZigzagX(RoundedRatio(y, step), amplitude),
                                  y |-> y]),
                  safe, step, amplitude, fuel - 1)

\* A render that leaves out the vertex at safeHeight.
ZigzagPointsWithoutLast(height, step, amplitude) ==
  ZigzagLoop(0, <<>>, safeHeight(height), step, amplitude, MaxVertices)

\* the vertices of a render: the loop, then the vertex at safeHeight when the
\* loop stopped short of it.  points[points.length - 1].y of an empty list
\* is a TypeError.
ZigzagPoints(height, step, amplitude) ==
  LET loop == ZigzagLoop(0, <<>>, safeHeight(height), step, amplitude, MaxVertices) IN
    IF loop.outcome # "returns" THEN loop
    ELSE IF loop.points = <<>> THEN [outcome |-> "throws", points |-> <<>>]
    ELSE IF loop.points[Len(loop.points)].y < safeHeight(height)
    THEN [outcome |-> "returns",
          points |-> Append(loop.points,
                            [x |-> ZigzagX(Len(loop.points), amplitude),
                             y |-> safeHeight(height)])]
    ELSE loop

ZigzagHeights == {NaN, NegInf, -100, 0, 395, 404, 405, 560, 1000, PosInf}
ZigzagSteps == {25, 240, 280, 400, 1000, PosInf}
ZigzagAmplitudes == {10, 12}

NotRendered == [outcome |-> "none", points |-> <<>>]

ZigzagInit ==
  /\ HomeInit /\ ValidatorIdle /\ BackendIdle
  /\ zigzag \in [height : ZigzagHeights, step : ZigzagSteps,
                  amplitude : ZigzagAmplitudes, result : {NotRendered}]

\* one render of ZigzagLine with the props of the state
ZigzagLine ==
  /\ zigzag.result = NotRendered
  /\ zigzag' = [zigzag EXCEPT
                  !.result = ZigzagPoints(zigzag.height, zigzag.step, zigzag.amplitude)]
  /\ UNCHANGED <<homeSegVars, homePolyVars, imageVars, sidebarVars, modalFlags,
                 isEditMode, wheelVars, ls, now, last, used, validatorVars, backendVars>>

SpecZigzag == ZigzagInit /\ [][ZigzagLine]_vars

(***************************************************************************)
(* The Home page with its segments: sidebar edits, drag and zoom.          *)
(***************************************************************************)
Init == HomeInit /\ ValidatorIdle /\ BackendIdle /\ ZigzagIdle

Next ==
  \/ ToggleEditMode
  \/ \E f \in GeometryFields, n \in NumberInputs : SidebarGeometryEdit(f, n)
  \/ \E p \in Pointers, laidOut \in BOOLEAN : MouseDown(p, laidOut)
  \/ \E p \in Pointers : DragMove(p)
  \/ StopDragging
  \/ WindowBlur
  \/ \E i \in 1..Len(segments) : ViewClickSegment(i)
  \/ CloseModal
  \/ \E deltaY \in WheelDeltas : Wheel(deltaY)

Spec == Init /\ [][Next]_vars

(***************************************************************************)
(* The Home page with its segments: add, delete, select, retitle, import,  *)
(* reset.                                                                  *)
(***************************************************************************)
NextImport ==
  \/ Tick
  \/ ToggleEditMode
  \/ \E id \in Ids(segments) : SelectSegment(id)
  \/ \E field \in TextFields, txt \in TextInputs : SidebarTextEdit(field, txt)
  \/ handleAddSegment
  \/ handleDeleteSegment
  \/ handleResetToDefault
  \/ \E t \in ImportTexts : TypeImportText(t)
  \/ handleApplyImport

SpecImport == Init /\ [][NextImport]_vars

(***************************************************************************)
(* The polylines of Home and of the wheel detail modal.                    *)
(***************************************************************************)
NextPoly ==
  \/ Tick
  \/ ToggleEditMode
  \/ \E i \in 1..Len(segments) : IsWheelShop(segments[i]) /\ ViewClickSegment(i)
  \/ CloseModal
  \/ handleStartPolyline
  \/ PressStartDisabled
  \/ PressStartLineDisabled
  \/ \E p \in DrawPointers, laidOut \in BOOLEAN : CanvasMove(p, laidOut)
  \/ CanvasLeave
  \/ \E p \in DrawPointers, laidOut \in BOOLEAN : CanvasClick(p, laidOut)
  \/ handleFinishPolyline
  \/ handleClearPolylines
  \/ \E id \in Ids(polylines) : SelectPolyline(id)
  \/ \E patch \in PolylineTextPatches : SidebarPolylineEdit(patch[1], patch[2])
  \/ RequestDeletePolyline
  \/ CancelDeletePolyline
  \/ ConfirmDeletePolyline
  \/ WheelToggleEditMode
  \/ startLine
  \/ \E p \in DrawPointers, laidOut \in BOOLEAN : handleContainerClick(p, laidOut)
  \/ \E p \in DrawPointers, laidOut \in BOOLEAN : WheelMouseMove(p, laidOut)
  \/ WheelMouseLeave
  \/ finishLine
  \/ \E id \in Ids(wPolylines) \cup {NoId} : WheelSelect(id)
  \/ \E patch \in PolylineTextPatches : updateActive(patch[1], patch[2])
  \/ \E id \in Ids(wPolylines) : deleteLine(id)
  \/ clearAll

SpecPoly == Init /\ [][NextPoly]_vars

(***************************************************************************)
(* The three stored collections: every handler that writes one of them,    *)
(* and what it takes to reach those handlers.                              *)
(***************************************************************************)
\* the import texts that pass validation
ValidImportTexts == {t \in ImportTexts : ImportOutcome(t).ok}

NextStore ==
  \/ ToggleEditMode
  \/ \E n \in {NaN, 150} : SidebarGeometryEdit("top", n)
  \/ \E p \in Pointers : MouseDown(p, TRUE)
  \/ \E p \in DrawPointers : DragMove(p)
  \/ StopDragging
  \/ \E deltaY \in WheelDeltas : Wheel(deltaY)
  \/ handleAddSegment
  \/ handleDeleteSegment
  \/ handleResetToDefault
  \/ \E t \in ValidImportTexts : TypeImportText(t)
  \/ handleApplyImport
  \/ handleStartPolyline
  \/ \E p \in DrawPointers : CanvasClick(p, TRUE)
  \/ handleClearPolylines
  \/ \E i \in 1..Len(segments) : IsWheelShop(segments[i]) /\ ViewClickSegment(i)
  \/ CloseModal
  \/ WheelToggleEditMode
  \/ startLine
  \/ \E p \in DrawPointers : handleContainerClick(p, TRUE)
  \/ \E id \in Ids(wPolylines) : deleteLine(id)
  \/ clearAll

SpecStore == Init /\ [][NextStore]_vars

(***************************************************************************)
(* The handlers that convert a pointer position, on a surface that is laid *)
(* out or not, and what it takes to reach them.                            *)
(***************************************************************************)
NextPointer ==
  \/ ToggleEditMode
  \/ \E p \in Pointers, laidOut \in BOOLEAN : MouseDown(p, laidOut)
  \/ StopDragging
  \/ \E deltaY \in WheelDeltas : Wheel(deltaY)
  \/ handleStartPolyline
  \/ \E p \in DrawPointers, laidOut \in BOOLEAN : CanvasMove(p, laidOut)
  \/ \E p \in DrawPointers, laidOut \in BOOLEAN : CanvasClick(p, laidOut)
  \/ \E i \in 1..Len(segments) : IsWheelShop(segments[i]) /\ ViewClickSegment(i)
  \/ CloseModal
  \/ WheelToggleEditMode
  \/ startLine
  \/ \E p \in DrawPointers, laidOut \in BOOLEAN : handleContainerClick(p, laidOut)
  \/ \E p \in DrawPointers, laidOut \in BOOLEAN : WheelMouseMove(p, laidOut)

SpecPointer == Init /\ [][NextPointer]_vars

(***************************************************************************)
(* The life of an entity: creation, the operations on an existing segment  *)
(* or polyline, deletion.                                                  *)
(***************************************************************************)
NextEntity ==
  \/ ToggleEditMode
  \/ \E id \in Ids(segments) : SelectSegment(id)
  \/ SidebarGeometryEdit("top", 150)
  \/ SidebarTextEdit("title", "X")
  \/ MouseDown([x |-> 192, y |-> 32], TRUE)
  \/ \E p \in DrawPointers : DragMove(p)
  \/ StopDragging
  \/ handleAddSegment
  \/ handleDeleteSegment
  \/ handleStartPolyline
  \/ \E p \in DrawPointers : CanvasClick(p, TRUE)
  \/ handleFinishPolyline
  \/ \E id \in Ids(polylines) : SelectPolyline(id)
  \/ SidebarPolylineEdit("label", "L")
  \/ \E i \in 1..Len(segments) : IsWheelShop(segments[i]) /\ ViewClickSegment(i)
  \/ CloseModal
  \/ WheelToggleEditMode
  \/ startLine
  \/ \E p \in DrawPointers : handleContainerClick(p, TRUE)
  \/ finishLine
  \/ updateActive("label", "L")

SpecEntity == Init /\ [][NextEntity]_vars

(***************************************************************************)
(* Export: the four copy buttons, on collections that adds and starts have *)
(* changed.                                                                *)
(***************************************************************************)
NextExport ==
  \/ Tick
  \/ ToggleEditMode
  \/ handleAddSegment
  \/ handleStartPolyline
  \/ \E i \in 1..Len(segments) : ViewClickSegment(i)
  \/ CloseModal
  \/ \E op \in {"handleCopyJson", "handleCopyAllSegments"}, outcome \in ClipboardOutcomes :
       SidebarCopy(op, outcome)
  \/ \E outcome \in ClipboardOutcomes : handleCopyHomePolylines(outcome)
  \/ \E outcome \in ClipboardOutcomes : handleCopyWheelPolylines(outcome)

SpecExport == Init /\ [][NextExport]_vars

(***************************************************************************)
(* Writes and exports that fail: the store stops taking writes at some     *)
(* moment, the clipboard and the download fail at will.                    *)
(***************************************************************************)
NextFailure ==
  \/ StorageFails
  \/ ToggleEditMode
  \/ handleAddSegment
  \/ handleDeleteSegment
  \/ handleStartPolyline
  \/ \E p \in DrawPointers : CanvasClick(p, TRUE)
  \/ handleFinishPolyline
  \/ \E i \in 1..Len(segments) : IsWheelShop(segments[i]) /\ ViewClickSegment(i)
  \/ CloseModal
  \/ WheelToggleEditMode
  \/ startLine
  \/ \E p \in DrawPointers : handleContainerClick(p, TRUE)
  \/ \E op \in {"handleCopyJson", "handleCopyAllSegments"}, outcome \in ClipboardOutcomes :
       SidebarCopy(op, outcome)
  \/ \E outcome \in ClipboardOutcomes : handleCopyHomePolylines(outcome)
  \/ \E outcome \in ClipboardOutcomes : handleCopyWheelPolylines(outcome)
  \/ \E outcome \in DownloadOutcomes : handleDownloadHomePolylines(outcome)

SpecFailure == Init /\ [][NextFailure]_vars

(***************************************************************************)
(* The zoom of Home: wheel events without a bound on their number, resets. *)
(***************************************************************************)
NextZoomOnly ==
  \/ ToggleEditMode
  \/ \E deltaY \in WheelDeltas : handleWheel(deltaY)
  \/ handleResetToDefault

SpecZoom == Init /\ [][NextZoomOnly]_vars

(***************************************************************************)
(* Claims on the segments.                                                 *)
(***************************************************************************)
InPercentRange(v) == IsFinite(v) /\ v >= 0 /\ v <= 100

\* C1: after any sequence of sidebar edits and drag moves, with NaN and
\* out-of-range inputs among them, every segment's top, left, width and height
\* is in [0,100], and a NaN typed into a field is stored as 0.
C1_GeometryClamped ==
  /\ \A i \in 1..Len(segments) : \A f \in GeometryFields :
       InPercentRange(segments[i][f])
  /\ (last.op = "SidebarGeometryEdit" /\ IsNaN(last.value)) =>
       \A i \in 1..Len(segments) :
         segments[i].id = last.id => segments[i][last.field] = 0

C1_Witness ==
  /\ last.op = "SidebarGeometryEdit"
  /\ IsNaN(last.value)
  /\ \E i \in 1..Len(segments) : segments[i].id = last.id

\* the pointer position in percent of the surface, not clamped
Normalized(p) == [x |-> JsRatio100(p.x, RectWidth), y |-> JsRatio100(p.y, RectHeight)]

\* C2: after a pointer-move of a drag the segment's {left, top} is the clamp
\* of (normalized pointer position - grabOffset), grabOffset being the
\* normalized pointer position at grab minus the segment's {left, top} at grab.
C2_DragFollowsPointer ==
  last.op = "DragMove" =>
    \A i \in 1..Len(segments) :
      segments[i].id = last.id =>
        /\ segments[i].left =
             clampPercent(Normalized(last.p).x
                          - (clampPercent(Normalized(used.grab.p).x) - used.grab.left))
        /\ segments[i].top =
             clampPercent(Normalized(last.p).y
                          - (clampPercent(Normalized(used.grab.p).y) - used.grab.top))

\* C11: from scale 1.0, after any wheel events and resets the scale is in
\* [0.5, 4.0]; a wheel event with deltaY < 0 raises it by 0.1 and one with
\* deltaY > 0 lowers it by 0.1, clamped at the bounds; k wheel-up events from
\* 1.0 give min(4.0, 1.0 + k * 0.1): 1.4 for four, 4.0 for thirty-four.
C11_ZoomSteps ==
  [][/\ zoom' >= minZoom /\ zoom' <= maxZoom
     /\ (last'.op = "Wheel" /\ last'.value < 0) => zoom' = Min(400, zoom + 10)
     /\ (last'.op = "Wheel" /\ last'.value > 0) => zoom' = Max(50, zoom - 10)
     /\ last'.op = "ResetToDefault" => zoom' = 100
     /\ used'.ups = 4 => zoom' = 140
     /\ used'.ups = 34 => zoom' = 400]_vars

C11_Witness == used.ups = 34 /\ zoom = 400 /\ last.op = "Wheel" /\ last.value < 0

\* C12 as claimed: while a segment is dragged, a further pointer-down on a
\* segment changes neither the dragged segment id nor the captured offset.
C12_OneDragAtATime ==
  [][(last'.op = "MouseDown" /\ dragState # NoDrag) => dragState' = dragState]_vars

\* C13 as claimed: pointer release, the pointer leaving the window and a
\* window blur each end the drag: right after any of them no segment is
\* dragged (so that pointer moves change no segment any more).
C13_DragEndsOnReleaseLeaveBlur ==
  last.op \in {"StopDragging", "WindowBlur"} => dragState = NoDrag

\* the offset handleMouseDown captured at the grab, from the grab alone
OffsetAtGrab(grab) ==
  [x |-> clampPercent(JsRatio100(grab.p.x, (ParentWidth * grab.zoom) \div 100)) - grab.left,
   y |-> clampPercent(JsRatio100(grab.p.y, (ParentWidth * grab.zoom) \div 100)) - grab.top]

\* C14: the position a drag leaves a segment at depends only on the grab
\* (pointer position and segment position at pointer-down) and on the last
\* pointer-move event, at the size the diagram then has: whatever moves came
\* in between, it is the same function of these.
C14_LastMoveDecides ==
  last.op = "DragMove" =>
    \A i \in 1..Len(segments) :
      segments[i].id = last.id =>
        /\ segments[i].left =
             clampPercent(JsRatio100(last.p.x - OffsetAtGrab(used.grab).x, RectWidth))
        /\ segments[i].top =
             clampPercent(JsRatio100(last.p.y - OffsetAtGrab(used.grab).y, RectHeight))

\* a second move of one drag has taken the segment somewhere else
C14_Witness ==
  /\ last.op = "DragMove"
  /\ used.grab.moves = 2
  /\ \E i \in 1..Len(segments) :
       segments[i].id = last.id /\ segments[i].left # used.grab.left

\* C15: outside edit mode no segment is dragged, and a pointer-down, a
\* pointer-move or a click on a segment starts no drag and changes no
\* segment; a click on a segment in view mode changes nothing but the flags
\* that open a detail view.
C15_ViewModeIsReadOnly ==
  [][/\ ~isEditMode' => dragState' = NoDrag
     /\ (~isEditMode /\ last'.op \in {"MouseDown", "DragMove", "ViewClickSegment"}) =>
          /\ dragState' = NoDrag
          /\ segments' = segments
          /\ ls' = ls
     /\ last'.op = "ViewClickSegment" =>
          /\ ~isEditMode
          /\ UNCHANGED <<homeSegVars, homePolyVars, imageVars, sidebarVars, isEditMode>>]_vars

\* a pointer-down on a segment in view mode, after a stay in edit mode
C15_Witness ==
  /\ last.op = "MouseDown"
  /\ ~isEditMode
  /\ dragState = NoDrag
  /\ segments # DEFAULT_SEGMENTS

(***************************************************************************)
(* Claims on the import.                                                   *)
(***************************************************************************)
\* an element that fails the id requirement: no object, or no non-empty string id
FailsIdRequirement(item) ==
  \/ item.t # "obj"
  \/ Prop(item, "id").t # "str"
  \/ Prop(item, "id").s = ""

\* the import text is one the import must reject
RejectedText(t) ==
  \/ t.kind \in {"blank", "garbage"}
  \/ t.json.t # "arr"
  \/ \E i \in 1..Len(t.json.a) : FailsIdRequirement(t.json.a[i])

\* C6: a rejected import (empty text, unparseable JSON, non-array, an element
\* failing the id requirement) leaves the segments, the selected segment, the
\* polylines and the persisted snapshot as they were and sets an error message.
C6_RejectedImportChangesNothing ==
  [][(last'.op = "ApplyImport" /\ RejectedText(importText)) =>
       /\ segments' = segments
       /\ selectedSegmentId' = selectedSegmentId
       /\ polylines' = polylines
       /\ ls' = ls
       /\ importError' # NoError]_vars

C6_Witness ==
  /\ last.op = "ApplyImport"
  /\ importText.kind = "json"
  /\ importText.json.t = "arr"
  /\ \E i \in 1..Len(importText.json.a) : FailsIdRequirement(importText.json.a[i])
  /\ \E i \in 1..Len(importText.json.a) : ~FailsIdRequirement(importText.json.a[i])
  /\ importError # NoError

ValidationSucceeds(t) == t.kind = "json" /\ normalizeImportedSegments(t.json).ok

\* C7 as claimed: whenever validation of the import text succeeds, with an
\* array of any length, applying the import makes the segment collection equal
\* to the validated array.
C7_AnyValidatedArrayReplaces ==
  [][(last'.op = "ApplyImport" /\ ValidationSucceeds(importText)) =>
       segments' = normalizeImportedSegments(importText.json).v]_vars

\* C7 as amended: whenever validation succeeds with a non-empty array, applying
\* the import makes the segment collection equal to the validated array (no
\* earlier segment survives, nothing is merged); an empty array is rejected.
C7_NonEmptyValidatedArrayReplaces ==
  [][(last'.op = "ApplyImport" /\ ValidationSucceeds(importText)) =>
       IF Len(normalizeImportedSegments(importText.json).v) > 0
       THEN segments' = normalizeImportedSegments(importText.json).v
       ELSE segments' = segments /\ importError' # NoError]_vars

C7_Witness ==
  /\ last.op = "ApplyImport"
  /\ ValidationSucceeds(importText)
  /\ Len(normalizeImportedSegments(importText.json).v) = 2
  /\ segments = normalizeImportedSegments(importText.json).v
  /\ importSuccess

(***************************************************************************)
(* Claims on the polylines.                                                *)
(***************************************************************************)
\* the lines of a collection that carry the id
WithId(lines, id) == {i \in 1..Len(lines) : lines[i].id = id}

AllSet(pts) == \A i \in 1..Len(pts) : pts[i].set

\* C3 as claimed: in edit mode, from Idle, a session of start, clicks, finish
\* with pointer moves in between (and nothing else) leaves the polyline it
\* started with exactly the clicked coordinates as points, in order; no
\* previewed coordinate that was not clicked is among them.
C3_PointsAreTheClicks ==
  (last.op = "FinishPolyline" /\ used.pure /\ Len(used.clicks) > 0 /\ AllSet(used.clicks)) =>
    /\ WithId(polylines, used.session) # {}
    /\ \A i \in WithId(polylines, used.session) :
         polylines[i].points = [k \in 1..Len(used.clicks) |->
                                  [x |-> used.clicks[k].x, y |-> used.clicks[k].y]]

\* the points of a collection, line by line
PointsOf(lines) == [i \in 1..Len(lines) |-> lines[i].points]

\* nothing but one point appended to the lines with the id
AppendedOnlyTo(before, after, id) ==
  /\ Len(after) = Len(before)
  /\ \A i \in 1..Len(before) :
       IF before[i].id = id
       THEN /\ Len(after[i].points) = Len(before[i].points) + 1
            /\ SubSeq(after[i].points, 1, Len(before[i].points)) = before[i].points
       ELSE after[i].points = before[i].points

\* C4 as claimed: while the session of Home is drawing, a click changes the
\* points of no polyline other than the one Start created for this session,
\* whatever select operations came in between.
C4_PointsGoToStartedLine ==
  [][(last'.op = "CanvasClick" /\ isDrawingPolyline) =>
       \A i \in 1..Len(polylines) :
         polylines[i].id # used.session => polylines'[i].points = polylines[i].points]_vars

\* C4 as amended: while drawing, a click either changes no points at all or
\* appends one point to the polyline (every line carrying the id) that the
\* active reference names at the time of the click, which is the one Start
\* created unless a select operation has changed the reference since; the
\* points of every polyline with another id stay as they were.  This holds
\* for Home and for the modal.
C4_PointsGoToActiveLine ==
  [][/\ last'.op = "CanvasClick" =>
          \/ PointsOf(polylines') = PointsOf(polylines)
          \/ AppendedOnlyTo(polylines, polylines', activePolylineId)
     /\ last'.op = "handleContainerClick" =>
          \/ PointsOf(wPolylines') = PointsOf(wPolylines)
          \/ AppendedOnlyTo(wPolylines, wPolylines', wActiveId)]_vars

\* a click has gone to a line selected after Start, another line exists
C4_Witness ==
  /\ last.op = "CanvasClick"
  /\ isDrawingPolyline
  /\ activePolylineId # used.session
  /\ WithId(polylines, used.session) # {}
  /\ \E i \in WithId(polylines, activePolylineId) : Len(polylines[i].points) = 4

\* the step is the handler op (the clock alone did not move)
Did(op) == last'.op = op /\ now' = now

\* one line with no points has been added at the end, nothing else changed
AppendedEmptyLine(before, after) ==
  /\ Len(after) = Len(before) + 1
  /\ SubSeq(after, 1, Len(before)) = before
  /\ after[Len(after)].points = <<>>

\* C16: Start takes effect only in edit mode while the session is idle; it
\* then appends one new polyline with no points at the end of the collection,
\* makes it the active one and the session drawing; a press on Start outside
\* edit mode or while drawing changes nothing.  For Home and for the modal.
C16_StartAppendsOneEmptyLine ==
  [][/\ Did("StartPolyline") =>
          /\ isEditMode /\ ~isDrawingPolyline
          /\ AppendedEmptyLine(polylines, polylines')
          /\ activePolylineId' = polylines'[Len(polylines')].id
          /\ isDrawingPolyline'
     /\ Did("startLine") =>
          /\ wIsEditMode /\ ~wIsDrawing
          /\ AppendedEmptyLine(wPolylines, wPolylines')
          /\ wActiveId' = wPolylines'[Len(wPolylines')].id
          /\ wIsDrawing'
     /\ last'.op \in {"PressStartDisabled", "PressStartLineDisabled"} =>
          UNCHANGED <<homePolyVars, wheelVars, segments, ls>>]_vars

\* the modal's second line has just been started
C16_Witness ==
  /\ last.op = "startLine"
  /\ Len(wPolylines) = 2
  /\ wPolylines[2].points = <<>>
  /\ wActiveId = wPolylines[2].id
  /\ wIsDrawing

\* line by line, the points before are a prefix of the points after, which are
\* at most one more
GrownByAtMostOne(before, after) ==
  /\ Len(after) = Len(before)
  /\ \A i \in 1..Len(before) :
       /\ after[i].id = before[i].id
       /\ Len(after[i].points) \in {Len(before[i].points), Len(before[i].points) + 1}
       /\ SubSeq(after[i].points, 1, Len(before[i].points)) = before[i].points

\* C17: a click removes no polyline, and the points of every polyline before
\* the click are a prefix of its points after it, with at most one point
\* more; a click while the session is idle or outside edit mode adds no point.
C17_CaptureAppendsOnly ==
  [][/\ Did("CanvasClick") =>
          /\ GrownByAtMostOne(polylines, polylines')
          /\ ~(isEditMode /\ isDrawingPolyline) => polylines' = polylines
     /\ Did("handleContainerClick") =>
          /\ GrownByAtMostOne(wPolylines, wPolylines')
          /\ ~(wIsEditMode /\ wIsDrawing) => wPolylines' = wPolylines]_vars

\* a point has been captured on the stored line of Home, after its three
C17_Witness ==
  /\ last.op = "CanvasClick"
  /\ \E i \in 1..Len(polylines) :
       /\ polylines[i].id = DEFAULT_HOME_POLYLINES[1].id
       /\ Len(polylines[i].points) = 4
       /\ SubSeq(polylines[i].points, 1, 3) = DEFAULT_HOME_POLYLINES[1].points
       /\ polylines[i].points[4] = [x |-> 40, y |-> 50]

\* C18 as claimed: the preview point is null in every state in which the
\* session is not drawing, and right after the pointer has left the drawing
\* surface.  For Home and for the modal.
C18_NoPreviewUnlessDrawing ==
  /\ ~(isEditMode /\ isDrawingPolyline) => previewPoint = NoPoint
  /\ ~(wIsEditMode /\ wIsDrawing) => wPreviewPoint = NoPoint
  /\ last.op = "CanvasLeave" => previewPoint = NoPoint
  /\ last.op = "WheelMouseLeave" => wPreviewPoint = NoPoint

\* C19: a Finish step, on Home and in the modal, starts in a drawing session
\* and ends in an idle one, and leaves the polyline collection and what is
\* stored of it as they were, whatever the number of points of the drawn line.
C19_FinishKeepsTheLines ==
  [][ /\ Did("FinishPolyline") =>
           /\ isDrawingPolyline /\ ~isDrawingPolyline'
           /\ polylines' = polylines
           /\ ls' = ls
      /\ Did("finishLine") =>
           /\ wIsDrawing /\ ~wIsDrawing'
           /\ wPolylines' = wPolylines
           /\ ls' = ls ]_vars

\* a session has been finished on Home on a line that has no point
C19_Witness ==
  /\ last.op = "FinishPolyline"
  /\ ~isDrawingPolyline
  /\ \E i \in 1..Len(polylines) :
       polylines[i].id = last.id /\ polylines[i].points = <<>>

\* C20: a clear-all step, on Home and in the modal, ends with an empty
\* polyline collection, no active polyline and an idle session, and leaves the
\* segments as they were.
C20_ClearAllEmpties ==
  [][ /\ Did("ClearPolylines") =>
           /\ polylines' = <<>>
           /\ activePolylineId' = NoId
           /\ ~isDrawingPolyline'
           /\ segments' = segments
      /\ Did("clearAll") =>
           /\ wPolylines' = <<>>
           /\ wActiveId' = NoId
           /\ ~wIsDrawing'
           /\ segments' = segments ]_vars

\* the lines of Home have been cleared and the empty collection is stored
C20_Witness ==
  /\ last.op = "ClearPolylines"
  /\ polylines = <<>>
  /\ used = Interrupted
  /\ ls.polylines = PolylinesToJson(<<>>)

\* a line of the collection has more points after the step than before
SomeLineGrew(before, after) ==
  \E i \in 1..Len(before) :
    /\ i <= Len(after)
    /\ before[i].id = after[i].id
    /\ Len(after[i].points) > Len(before[i].points)

\* C21: a step that leaves edit mode ends with an idle session and with the
\* polylines and their storage as they were; a step that enters edit mode
\* leaves the session idle; a session becomes drawing by a Start step only;
\* and a line gets a point only in a step that starts in edit mode while
\* drawing.  For Home and for the modal.
C21_LeavingEditModeEndsTheSession ==
  [][ /\ (Did("ToggleEditMode") /\ isEditMode) =>
           ~isEditMode' /\ ~isDrawingPolyline' /\ polylines' = polylines /\ ls' = ls
      /\ (Did("ToggleEditMode") /\ ~isEditMode) =>
           isEditMode' /\ ~isDrawingPolyline /\ ~isDrawingPolyline'
      /\ (Did("WheelToggleEditMode") /\ wIsEditMode) =>
           ~wIsEditMode' /\ ~wIsDrawing' /\ wPolylines' = wPolylines /\ ls' = ls
      /\ (Did("WheelToggleEditMode") /\ ~wIsEditMode) =>
           wIsEditMode' /\ ~wIsDrawing /\ ~wIsDrawing'
      /\ (~isDrawingPolyline /\ isDrawingPolyline') => Did("StartPolyline")
      /\ (~wIsDrawing /\ wIsDrawing') => Did("startLine")
      /\ (polylines' # polylines /\ SomeLineGrew(polylines, polylines')) =>
           isEditMode /\ isDrawingPolyline
      /\ (wPolylines' # wPolylines /\ SomeLineGrew(wPolylines, wPolylines')) =>
           wIsEditMode /\ wIsDrawing ]_vars

\* edit mode of Home has been entered again, the session is idle, and the line
\* started before edit mode was left still has the point captured on it
C21_Witness ==
  /\ last.op = "ToggleEditMode"
  /\ isEditMode /\ ~isDrawingPolyline
  /\ used.session # NoId
  /\ \E i \in 1..Len(polylines) :
       polylines[i].id = used.session /\ Len(polylines[i].points) = 1

\* C22: in every state, between two events, what is stored under each of the
\* three storage keys is the JSON serialization of the collection in memory.
C22_StoredIsCurrent ==
  /\ ls.segments = SegmentsToJson(segments)
  /\ ls.polylines = PolylinesToJson(polylines)
  /\ ls.wheel = PolylinesToJson(wPolylines)

\* a segment has been dragged away from where the default dataset has it, and
\* the stored snapshot has it at the new place
C22_Witness ==
  /\ last.op = "DragMove"
  /\ segments # DEFAULT_SEGMENTS
  /\ ls.segments # SegmentsToJson(DEFAULT_SEGMENTS)
  /\ ls.segments = SegmentsToJson(segments)

\* the stored text is absent, is not JSON, is not an array, or has an element
\* without a non-blank string id
BadSnapshot(text) ==
  \/ text.kind # "json"
  \/ text.json.t # "arr"
  \/ \E i \in 1..Len(text.json.a) : ~ItemAccepted(text.json.a[i])

\* C23 as claimed: right after initialization, a collection whose stored
\* snapshot is absent, unparseable, not an array or has an invalid element is
\* the default dataset (the wheel modal's fallback is the empty list), and the
\* collections of Home are never empty.
C23_BadSnapshotGivesDefaults ==
  last.op = "Init" =>
    /\ BadSnapshot(vRaw.segments) => segments = DEFAULT_SEGMENTS
    /\ BadSnapshot(vRaw.polylines) => polylines = DEFAULT_HOME_POLYLINES
    /\ BadSnapshot(vRaw.wheel) => wPolylines = <<>>
    /\ segments # <<>>
    /\ polylines # <<>>

\* the field invariants of the data model
SegmentInModel(seg) ==
  /\ \A f \in GeometryFields : seg[f] \in 0..100
  /\ seg.color \in Colors

PolylineInModel(line) ==
  /\ line.color \in Colors
  /\ line.dashStyle \in DashStyles
  /\ IsFinite(line.strokeWidth) /\ line.strokeWidth > 0
  /\ \A i \in 1..Len(line.points) :
       line.points[i].x \in 0..100 /\ line.points[i].y \in 0..100

\* C24 as claimed: whatever the storage keys held when the page was opened,
\* in every state every segment and every polyline, of Home and of the modal,
\* satisfies the field invariants of the data model.
C24_StoredEntitiesAreInModel ==
  /\ \A i \in 1..Len(segments) : SegmentInModel(segments[i])
  /\ \A i \in 1..Len(polylines) : PolylineInModel(polylines[i])
  /\ \A i \in 1..Len(wPolylines) : PolylineInModel(wPolylines[i])

\* C25 as claimed: after a copy, from any of the four copy buttons, for which
\* the clipboard was missing or its write failed, a download has been
\* triggered.
C25_FailedCopyDownloads ==
  (/\ last.op \in {"handleCopyJson", "handleCopyAllSegments",
                    "handleCopyHomePolylines", "handleCopyWheelPolylines"}
   /\ last.id \in {"missing", "rejects"})
  => last.field = "downloaded"

\* no two elements of the collection have the same id
DistinctIds(sq) == \A i, j \in 1..Len(sq) : sq[i].id = sq[j].id => i = j

\* C26 as claimed: in every state the ids of the segments are pairwise
\* distinct, and so are the ids of the polylines of Home and of the modal.
C26_IdsAreDistinct ==
  /\ DistinctIds(segments)
  /\ DistinctIds(polylines)
  /\ DistinctIds(wPolylines)

\* C27 as claimed: in every state the selected-segment reference is null or
\* the id of a segment of the collection, and right after a delete the hover
\* reference is not the id of the deleted segment.
C27_SelectionIsInCollection ==
  /\ selectedSegmentId = NoId \/ selectedSegmentId \in Ids(segments)
  /\ last.op = "DeleteSegment" => hoveredSegmentId # last.id

\* the collections and the drag state are what they were
NothingStarted == UNCHANGED <<segments, polylines, wPolylines, dragState, ls>>

\* C28: the conversion of a pointer position gives null exactly when the
\* surface is not laid out; otherwise both coordinates are in [0,100], also
\* for a pointer far outside the surface, on Home at every scale and in the
\* modal; and a handler whose conversion gave null starts no drag, appends no
\* point and changes no segment and no polyline.
C28_NullConversionIsIgnored ==
  /\ [](\A p \in Pointers \cup DrawPointers :
          /\ ~clientToSvgPercent(p, FALSE).set /\ ~clientToPercent(p, FALSE).set
          /\ clientToSvgPercent(p, TRUE).set /\ clientToPercent(p, TRUE).set
          /\ InPercentRange(clientToSvgPercent(p, TRUE).x)
          /\ InPercentRange(clientToSvgPercent(p, TRUE).y)
          /\ InPercentRange(clientToPercent(p, TRUE).x)
          /\ InPercentRange(clientToPercent(p, TRUE).y))
  /\ [][ /\ Did("MouseDown") =>
              \A p \in Pointers : MouseDown(p, FALSE) => NothingStarted
         /\ Did("CanvasClick") =>
              \A p \in DrawPointers :
                (CanvasClick(p, FALSE) /\ ~previewPoint.set) => NothingStarted
         /\ Did("CanvasMove") =>
              \A p \in DrawPointers :
                CanvasMove(p, FALSE) => NothingStarted /\ previewPoint' = NoPoint
         /\ Did("handleContainerClick") =>
              \A p \in DrawPointers : handleContainerClick(p, FALSE) => NothingStarted
         /\ Did("WheelMouseMove") =>
              \A p \in DrawPointers :
                WheelMouseMove(p, FALSE) => NothingStarted /\ wPreviewPoint' = NoPoint
       ]_vars

\* in edit mode a pointer-down on a segment has had null from the conversion,
\* and no drag is on
C28_Witness ==
  /\ last.op = "MouseDown"
  /\ isEditMode
  /\ dragState = NoDrag

\* C29: the scale changes in wheel steps and reset steps only; a reset step
\* ends with the scale at 1.0; and a wheel step leaves the segments, the
\* polylines of Home and of the modal, and what is stored of them as they were.
C29_OnlyWheelAndResetChangeScale ==
  [][ /\ zoom' # zoom => Did("Wheel") \/ Did("ResetToDefault")
      /\ Did("ResetToDefault") => zoom' = 100
      /\ Did("Wheel") => UNCHANGED <<segments, polylines, wPolylines, ls>> ]_vars

\* a wheel event has changed the scale after a segment was moved or edited
C29_Witness ==
  /\ last.op = "Wheel"
  /\ zoom # 100
  /\ segments # DEFAULT_SEGMENTS
  /\ ls.segments = SegmentsToJson(segments)

\* the ids of a collection, in its order
IdsInOrder(sq) == [i \in 1..Len(sq) |-> sq[i].id]

\* the operations that create or destroy entities
Structural ==
  {"AddSegment", "DeleteSegment", "StartPolyline", "startLine"}

\* C30: a step that is not a creation or a deletion (an update, a drag step,
\* a point capture, a select, a finish, a mode toggle, opening or closing the
\* modal) leaves the ids of the segments and of the polylines, of Home and of
\* the modal, as they were, each entity keeping its place and its id; and a
\* creation leaves the ids of the entities that existed as they were.
C30_IdsNeverChange ==
  [][ /\ last'.op \notin Structural =>
           /\ IdsInOrder(segments') = IdsInOrder(segments)
           /\ IdsInOrder(polylines') = IdsInOrder(polylines)
           /\ IdsInOrder(wPolylines') = IdsInOrder(wPolylines)
      /\ Did("AddSegment") =>
           SubSeq(IdsInOrder(segments'), 1, Len(segments)) = IdsInOrder(segments)
      /\ Did("StartPolyline") =>
           SubSeq(IdsInOrder(polylines'), 1, Len(polylines)) = IdsInOrder(polylines)
      /\ Did("startLine") =>
           SubSeq(IdsInOrder(wPolylines'), 1, Len(wPolylines)) = IdsInOrder(wPolylines)
    ]_vars

\* a segment added in this run has been retitled, and has its id still
C30_Witness ==
  /\ last.op = "SidebarTextEdit"
  /\ last.id \notin Ids(DEFAULT_SEGMENTS)
  /\ \E i \in 1..Len(segments) : segments[i].id = last.id /\ segments[i].title = "X"

\* C31: whenever a pointer-move of a drag patches the position of the dragged
\* segment, the selected-segment reference is the id of that segment right
\* after the move, whatever it was before.
C31_DragSelectsTheSegment ==
  [][Did("DragMove") /\ dragState.id \in Ids(segments) =>
       /\ segments' = MoveSegment(segments, dragState.id, DragPosition(last'.p, dragState))
       /\ selectedSegmentId' = dragState.id]_vars

\* a move has just put the dragged segment somewhere else, in a collection
\* that has grown since the start, and the segment is the selected one
C31_Witness ==
  /\ last.op = "DragMove"
  /\ dragState # NoDrag /\ dragState.id = last.id
  /\ Len(segments) > Len(DEFAULT_SEGMENTS)
  /\ selectedSegmentId = last.id
  /\ \E i \in 1..Len(segments) :
       /\ segments[i].id = last.id
       /\ <<segments[i].left, segments[i].top>> # <<used.grab.left, used.grab.top>>

\* C9: after the delete of the polyline the active reference names, the
\* reference does not name the deleted polyline: it is null or names a
\* polyline of the collection; a drawing session on the deleted polyline is
\* idle afterwards.  For Home and for the modal.
C9_DeleteClearsActive ==
  [][/\ (last'.op = "DeletePolyline" /\ activePolylineId = last'.id) =>
          /\ activePolylineId' # last'.id
          /\ activePolylineId' \in Ids(polylines') \cup {NoId}
          /\ ~isDrawingPolyline'
     /\ (last'.op = "deleteLine" /\ wActiveId = last'.id) =>
          /\ wActiveId' # last'.id
          /\ wActiveId' \in Ids(wPolylines') \cup {NoId}
          /\ ~wIsDrawing']_vars

\* the modal's session was drawing on the line that has just been deleted
C9_Witness ==
  /\ last.op = "deleteLine"
  /\ last.field = "drawn"
  /\ ~wIsDrawing
  /\ wActiveId # last.id

\* C10: when the active polyline is deleted and another polyline remains, the
\* active reference names a remaining polyline after the delete; a delete
\* makes the reference null only when no polyline remains.
C10_DeleteFallsBack ==
  [][/\ last'.op = "DeletePolyline" =>
          /\ (activePolylineId = last'.id /\ Len(polylines') > 0) =>
               activePolylineId' \in Ids(polylines')
          /\ (activePolylineId # NoId /\ activePolylineId' = NoId) => Len(polylines') = 0
     /\ last'.op = "deleteLine" =>
          /\ (wActiveId = last'.id /\ Len(wPolylines') > 0) =>
               wActiveId' \in Ids(wPolylines')
          /\ (wActiveId # NoId /\ wActiveId' = NoId) => Len(wPolylines') = 0]_vars

\* the modal's active line was deleted, and the first remaining line is active
C10_Witness ==
  /\ last.op = "deleteLine"
  /\ last.field \in {"active", "drawn"}
  /\ Len(wPolylines) > 0
  /\ wActiveId = wPolylines[1].id
  /\ wActiveId # last.id

(***************************************************************************)
(* Inputs of the validator runs.                                           *)
(***************************************************************************)
BaseFields ==
  [id |-> JStr("a"), code |-> JStr("X"), title |-> JStr(""), details |-> JStr("d"),
   top |-> JNum(50), left |-> JNum(50), width |-> JNum(10), height |-> JNum(8),
   color |-> JStr("amber")]

Without(f, k) == [x \in DOMAIN f \ {k} |-> f[x]]

RawItems ==
  {JObj(BaseFields)}
  \cup {JObj([BaseFields EXCEPT !.id = x]) :
          x \in {JStr(""), JStr(" "), JStr("b"), JNum(1), JNull}}
  \cup {JObj(Without(BaseFields, k)) :
          k \in {"id", "code", "title", "details", "top", "width", "height", "color"}}
  \cup {JObj([BaseFields EXCEPT !.top = x]) :
          x \in {JNum(-5), JNum(150), JNum(0), JStr("50"), JNull, JNum(PosInf)}}
  \cup {JObj([BaseFields EXCEPT !.color = x]) : x \in {JStr("red"), JStr("cyan"), JNum(1)}}
  \cup {JObj([BaseFields EXCEPT !.code = JNum(1)])}
  \cup {JNull, JNum(1), JStr("a"), JArr(<<>>)}

SeqsUpTo(S, n) == UNION {[1..k -> S] : k \in 0..n}

RawInputs ==
  {JArr(a) : a \in SeqsUpTo(RawItems, MaxLen)}
  \cup {JNull, JNum(1), JStr("[]"), JObj(BaseFields)}

SampleSegments ==
  [id : {"a", " "}, code : {"", "X"}, title : {""}, details : {"d"},
   top : {0, 100}, left : {50}, width : {0, 10}, height : {8}, color : Colors]

SampleArrays == SeqsUpTo(SampleSegments, MaxLen)

ValidateInit ==
  /\ HomeInit /\ BackendIdle /\ ZigzagIdle
  /\ vDone = "init"
  /\ vResult = NullResult
  /\ \/ vSegs = <<>> /\ vRaw \in RawInputs
     \/ vSegs \in SampleArrays /\ vRaw = JNull

\* JSON.parse(JSON.stringify(segments))
Serialize ==
  /\ vDone = "init"
  /\ vRaw = JNull
  /\ vRaw' = SegmentsToJson(vSegs)
  /\ vDone' = "serialized"
  /\ UNCHANGED <<vSegs, vResult, homeSegVars, homePolyVars, imageVars, sidebarVars,
                 modalFlags, isEditMode, wheelVars, ls, now, last, used, backendVars,
                 zigzag>>

Validate ==
  /\ vDone \in {"init", "serialized"}
  /\ vResult' = normalizeImportedSegments(vRaw)
  /\ vDone' = IF vDone = "init" THEN "validated" ELSE "roundtrip"
  /\ UNCHANGED <<vRaw, vSegs, homeSegVars, homePolyVars, imageVars, sidebarVars,
                 modalFlags, isEditMode, wheelVars, ls, now, last, used, backendVars,
                 zigzag>>

SpecValidate == ValidateInit /\ [][Serialize \/ Validate]_vars

(***************************************************************************)
(* Claims on the validator.                                                *)
(***************************************************************************)
\* C5: normalizeImportedSegments returns null for an input that is no array
\* and for an array with an element that is no object or has no non-empty
\* string id, whatever the other elements are; a result it returns has one
\* segment per element of the input, never the valid subset only.
C5_AllOrNothing ==
  vDone = "validated" =>
    /\ vRaw.t # "arr" => ~vResult.ok
    /\ (vRaw.t = "arr" /\ \E i \in 1..Len(vRaw.a) : FailsIdRequirement(vRaw.a[i])) =>
         ~vResult.ok
    /\ vResult.ok => Len(vResult.v) = Len(vRaw.a)

C5_Witness ==
  /\ vDone = "validated"
  /\ vRaw.t = "arr"
  /\ Len(vRaw.a) = 2
  /\ ItemAccepted(vRaw.a[1])
  /\ FailsIdRequirement(vRaw.a[2])
  /\ ~vResult.ok

\* C8 as claimed: for every segment array with non-empty string ids, string
\* code / title / details, geometry in [0,100] and a colour of the palette,
\* validating its serialization returns an array equal to it.
C8_RoundTrip ==
  vDone = "roundtrip" => vResult.ok /\ vResult.v = vSegs

\* C8 as amended: the same for every such array whose ids are not blank, that
\* is, still non-empty after leading and trailing white space is removed.
C8_RoundTripNonBlankIds ==
  (vDone = "roundtrip" /\ \A i \in 1..Len(vSegs) : Trim(vSegs[i].id) # "") =>
    vResult.ok /\ vResult.v = vSegs

C8_Witness ==
  /\ vDone = "roundtrip"
  /\ Len(vSegs) = 2
  /\ vSegs[1].width = 0 /\ vSegs[2].top = 100 /\ vSegs[2].code = ""
  /\ vResult.ok
  /\ vResult.v = vSegs

\* a segment of the model: geometry in [0,100], a colour of the palette
\* (the strings are strings by construction of NormalizeItem)
WellFormedSegment(seg) ==
  /\ \A f \in {"top", "left", "width", "height"} : seg[f] \in 0..100
  /\ seg.color \in Colors
  /\ Trim(seg.id) # ""

\* the element was built from the item with the defaults of the validator
DefaultedFrom(seg, item) ==
  /\ seg.id = Prop(item, "id").s
  /\ (Prop(item, "color").t # "str" \/ Prop(item, "color").s \notin Colors) => seg.color = "cyan"
  /\ Prop(item, "color").t = "str" /\ Prop(item, "color").s \in Colors =>
       seg.color = Prop(item, "color").s
  /\ Prop(item, "title") = Undefined => seg.title = ""
  /\ Prop(item, "details") = Undefined => seg.details = ""
  /\ Prop(item, "title").t = "str" => seg.title = Prop(item, "title").s
  /\ Prop(item, "details").t = "str" => seg.details = Prop(item, "details").s
  /\ Prop(item, "code").t = "str" => seg.code = Prop(item, "code").s
  /\ Prop(item, "code").t # "str" => seg.code = "SEG"

\* C32: every non-null result of normalizeImportedSegments is a well-formed
\* segment array: geometry in [0,100], colour of the palette (cyan when
\* absent or invalid), title and details empty when absent; so validating
\* the result again returns the result.
C32_ResultIsWellFormed ==
  (vDone = "validated" /\ vResult.ok) =>
    /\ \A i \in 1..Len(vResult.v) :
         /\ WellFormedSegment(vResult.v[i])
         /\ DefaultedFrom(vResult.v[i], vRaw.a[i])
    /\ normalizeImportedSegments(SegmentsToJson(vResult.v)) = vResult

C32_Witness ==
  /\ vDone = "validated"
  /\ vRaw.t = "arr" /\ Len(vRaw.a) = 2
  /\ Prop(vRaw.a[1], "top") = JNum(150)
  /\ Prop(vRaw.a[2], "color") = JStr("red")
  /\ vResult.ok
  /\ vResult.v[1].top = 100
  /\ vResult.v[2].color = "cyan"

\* the collections and the drawing sessions of the page and of the modal
Memory ==
  <<segments, selectedSegmentId, polylines, isDrawingPolyline, activePolylineId,
    isEditMode, wPolylines, wIsDrawing, wActiveId, wIsEditMode>>

ExportOps ==
  {"handleCopyJson", "handleCopyAllSegments", "handleCopyHomePolylines",
   "handleCopyWheelPolylines", "handleDownloadHomePolylines"}

\* C33: when a write to the store fails, or a copy or a download fails, the
\* collections and the sessions are what they are when it succeeds: a failed
\* write leaves the store alone and the handler completes with its changes
\* (add, delete, start, captured point), an export changes nothing of them
\* whatever its outcome, and the handlers stay available afterwards.
C33_FailuresChangeNothingElse ==
  /\ [](ls.failing =>
          /\ (isEditMode /\ PageReachable /\ used.ops < MaxImportOps) =>
               ENABLED handleAddSegment
          /\ (isEditMode /\ PageReachable /\ ~isDrawingPolyline /\ used.ops < MaxPolyOps) =>
               ENABLED handleStartPolyline
          /\ (isWheelModalOpen /\ wIsEditMode /\ ~wIsDrawing /\ used.ops < MaxPolyOps) =>
               ENABLED startLine
          /\ PageReachable => ENABLED handleCopyHomePolylines("rejects"))
  /\ [][/\ ls.failing => ls' = ls
        /\ Did("AddSegment") =>
             /\ segments' = Append(segments, NewSegment(last'.id, Len(segments) + 1))
             /\ selectedSegmentId' = last'.id
        /\ Did("DeleteSegment") => segments' = FilterOut(segments, last'.id)
        /\ Did("StartPolyline") =>
             /\ polylines' = Append(polylines, NewPolyline(last'.id, Len(polylines) + 1))
             /\ isDrawingPolyline' /\ activePolylineId' = last'.id
        /\ Did("CanvasClick") =>
             polylines' = AppendToActive(polylines, activePolylineId,
                                         clientToSvgPercent(last'.p, TRUE))
        /\ Did("startLine") =>
             /\ wPolylines' = Append(wPolylines, NewPolyline(last'.id, Len(wPolylines) + 1))
             /\ wIsDrawing' /\ wActiveId' = last'.id
        /\ (last'.op \in ExportOps /\ now' = now) => Memory' = Memory /\ ls' = ls]_vars

\* a segment was added after the store stopped taking writes: it is in the
\* collection and not in the store
C33_Witness ==
  /\ ls.failing
  /\ last.op = "AddSegment"
  /\ \E i \in 1..Len(segments) : segments[i].id = last.id
  /\ selectedSegmentId = last.id
  /\ ls.segments # SegmentsToJson(segments)

\* the Home half of C34
HomeSessionIsAnchored ==
  isDrawingPolyline =>
    isEditMode /\ activePolylineId # NoId /\ activePolylineId \in Ids(polylines)

\* C34 as claimed: on the Home page and in the wheel modal, while the session
\* is drawing, edit mode is on and the active reference is not null and is
\* the id of a polyline of that collection.
C34_DrawingHasItsLine ==
  /\ HomeSessionIsAnchored
  /\ wIsDrawing =>
       wIsEditMode /\ wActiveId # NoId /\ wActiveId \in Ids(wPolylines)

\* after is before with at most the given fields of the entities named id
\* changed: same length, same order, every other entity and field as it was
OnlyPatched(before, after, id, fields) ==
  /\ Len(after) = Len(before)
  /\ \A i \in 1..Len(before) :
       /\ before[i].id # id => after[i] = before[i]
       /\ \A f \in DOMAIN before[i] \ fields : after[i][f] = before[i][f]
  /\ id \notin Ids(before) => after = before

SegmentUpdates == {"SidebarGeometryEdit", "SidebarTextEdit", "DragMove"}

\* C35: an update changes only the patched fields of the entity with the
\* given id; the other entities, the order, and the other collections are as
\* they were, and an update with an id that is not in the collection changes
\* no entity.  For the segments, the Home polylines and the modal's lines.
C35_UpdateTouchesOnlyItsEntity ==
  /\ [](/\ handleUpdateSegment(segments, "none", "top", 1) = segments
        /\ handleUpdatePolyline(polylines, "none", "label", "L") = polylines
        /\ handleUpdatePolyline(wPolylines, "none", "label", "L") = wPolylines)
  /\ [][/\ (last'.op \in SegmentUpdates /\ now' = now) =>
             /\ OnlyPatched(segments, segments', last'.id,
                            IF last'.op = "DragMove" THEN {"top", "left"}
                            ELSE {last'.field})
             /\ polylines' = polylines /\ wPolylines' = wPolylines
        /\ Did("SidebarPolylineEdit") =>
             /\ OnlyPatched(polylines, polylines', last'.id, {last'.field})
             /\ segments' = segments /\ wPolylines' = wPolylines
        /\ Did("updateActive") =>
             /\ OnlyPatched(wPolylines, wPolylines', last'.id, {last'.field})
             /\ segments' = segments /\ polylines' = polylines]_vars

\* the label of the line started last was edited next to the default line,
\* which kept its label
C35_Witness ==
  /\ last.op = "SidebarPolylineEdit"
  /\ Len(polylines) = 2
  /\ polylines[2].id = last.id
  /\ polylines[2].label = "L"
  /\ polylines[1] = DEFAULT_HOME_POLYLINES[1]

\* the step answered a request: at its arrival, or one that was in flight
Answered ==
  \/ Len(requests') < Len(requests)
  \/ used'.ops > used.ops /\ Len(requests') = Len(requests)

\* the rows a step changed are rows of the given project before and after
OnlyRowsOf(projectId) ==
  \A e \in EntityIds :
    db'.rows[e] # db.rows[e] =>
      /\ db.rows[e].project \in {NoId, projectId}
      /\ db'.rows[e].project \in {NoId, projectId}

\* C36 as claimed: a request with a token on a project that does not exist
\* or is of another user is answered 403 and touches no row; an update or a
\* delete of an entity that does not belong to the project of the URL is
\* answered 404 and changes no row; whatever a request changes is a row of
\* the project of its URL.
C36_RoutesAreProjectScoped ==
  [][Answered =>
       LET user == last'.field[1]
           projectId == last'.field[2]
       IN /\ (user # NoId /\ ProjectOwner(projectId) # user) =>
               last'.value = 403 /\ db' = db
          /\ (/\ last'.op \in {"PUT", "DELETE"}
              /\ user # NoId /\ ProjectOwner(projectId) = user
              /\ db.rows[last'.id].project # projectId) =>
               last'.value = 404 /\ db' = db
          /\ OnlyRowsOf(projectId)]_vars

\* no two rows of the users table have the same email
OneUserPerEmail ==
  \A j, k \in 1..Len(db.users) : db.users[j] = db.users[k] => j = k

\* C37 as claimed: under every interleaving of register requests there is at
\* most one user per email, and a register request that is answered while a
\* user with its email exists is answered 400 'User already exists' and
\* creates no user.
C37_SecondRegisterGets400 ==
  /\ [] OneUserPerEmail
  /\ [][(Answered /\ HasEmail(db.users, last'.id)) =>
          /\ last'.value = 400 /\ last'.field = UserExists
          /\ db' = db]_vars

\* C37 as amended: at most one user per email; a request whose lookup finds
\* a user with its email is answered 400 'User already exists', a request
\* whose lookup found none and whose insert meets a user with its email, put
\* there by a request that ran in between, is answered 500 'Registration
\* failed'; neither creates a user, and a request answered 201 has added
\* the one user of its email.
C37_SecondRegisterGets400Or500 ==
  /\ [] OneUserPerEmail
  /\ [][/\ (Answered /\ HasEmail(db.users, last'.id)) =>
             /\ db' = db
             /\ \/ last'.value = 400 /\ last'.field = UserExists
                \/ /\ last'.value = 500 /\ last'.field = Failed
                   /\ \E i \in 1..Len(requests) :
                        requests[i] = [email |-> last'.id, pc |-> "insert"]
        /\ (Answered /\ last'.value = 201) =>
             /\ ~HasEmail(db.users, last'.id)
             /\ db'.users = Append(db.users, last'.id)
        /\ (Answered /\ last'.value # 201) => db' = db]_vars

\* two requests for one email looked the email up before either inserted:
\* the first insert made the user, the second was answered 500
C37_Witness ==
  /\ last = Registration("a@x", Failed, 500)
  /\ db.users = <<"a@x">>
  /\ requests = <<>>


\* the vertex list of the claim: not empty, y from 0 strictly up to safeHeight,
\* x alternating between amplitude and 0 from amplitude
WellFormedZigzag(res, height, amplitude) ==
  /\ res.outcome = "returns"
  /\ res.points # <<>>
  /\ res.points[1].y = 0
  /\ \A i \in 1..(Len(res.points) - 1) : res.points[i].y < res.points[i + 1].y
  /\ res.points[Len(res.points)].y = safeHeight(height)
  /\ \A i \in 1..Len(res.points) : res.points[i].x = ZigzagX(i - 1, amplitude)

====
